---- MODULE Spec2Model ----
(***************************************************************************)
(* The PTY session manager of aterm (src-tauri/src/pty.rs): the registry   *)
(* PtyMap = Arc<Mutex<HashMap<String, PtyHandle>>>, the tauri commands     *)
(* that work on it, and the reader thread each spawn starts.               *)
(*                                                                         *)
(* A command runs on a caller thread. A caller's steps are the places at   *)
(* which another thread can observe it: taking the mutex, each call on the *)
(* terminal, the child or the writer, and the return. The MutexGuard of    *)
(* write_pty, resize_pty, kill_pty and kill_all_ptys lives to the end of   *)
(* the function; spawn_pty and force_exit scope theirs in a block.         *)
(***************************************************************************)
EXTENDS Integers, Sequences, FiniteSets, TLC

\* ---- bounds of the model -------------------------------------------------
\* children started over a run (PTY pairs whose spawn_command succeeded)
MaxHandles == 2
\* bytes all children print over a run
MaxOutput == 3
\* bytes all write_pty calls may hand to writers over a run
MaxInput == 4
\* commands issued plus moves of the environment (a child prints or exits,
\* a startup command ends, a read fails) over a run
MaxEvents == 3
\* bytes a terminal holds for its child before a write to it has to wait
PtyCapacity == 1

\* ---- parameters the callers draw from ------------------------------------
Callers == {1, 2}
Ids == {"a", "b"}
NoId == "-"
\* (cols, rows) a spawn asks for, and those a resize asks for
SpawnSizes == {<<80, 24>>}
Sizes == {<<80, 24>>, <<120, 40>>}
\* `cols: u16, rows: u16`: sizes with a zero in them, beside an ordinary one
U16Sizes == {<<80, 24>>, <<0, 24>>, <<80, 0>>}
\* `data: String` of write_pty, as Unicode scalar values: "hi" and "e-acute"
Strings == {<<104, 105>>, <<233>>}
\* what the k-th byte a child prints can be, and how many it prints at once
OutBytes == <<0, 255, 104>>
Bursts == {1, 2}

H == 1..MaxHandles

\* let mut buf = [0u8; 65536]
BufSize == 65536

\* ---- pure helpers --------------------------------------------------------
Min(a, b) == IF a < b THEN a ELSE b

RECURSIVE Flatten(_)
Flatten(ss) ==
  IF ss = <<>> THEN <<>> ELSE Head(ss) \o Flatten(Tail(ss))

\* str::as_bytes: a Rust String is UTF-8; one scalar value is 1 to 4 bytes
Utf8(cp) ==
  IF cp < 128 THEN <<cp>>
  ELSE IF cp < 2048 THEN <<192 + (cp \div 64), 128 + (cp % 64)>>
  ELSE IF cp < 65536
    THEN <<224 + (cp \div 4096), 128 + ((cp \div 64) % 64), 128 + (cp % 64)>>
  ELSE <<240 + (cp \div 262144), 128 + ((cp \div 4096) % 64),
         128 + ((cp \div 64) % 64), 128 + (cp % 64)>>

as_bytes(s) == Flatten([i \in 1..Len(s) |-> Utf8(s[i])])

\* base64 STANDARD alphabet (RFC 4648), padded
B64Alphabet ==
  << "A","B","C","D","E","F","G","H","I","J","K","L","M","N","O","P",
     "Q","R","S","T","U","V","W","X","Y","Z","a","b","c","d","e","f",
     "g","h","i","j","k","l","m","n","o","p","q","r","s","t","u","v",
     "w","x","y","z","0","1","2","3","4","5","6","7","8","9","+","/" >>
B64Pad == "="
B64Char(v) == B64Alphabet[v + 1]

\* the 4 characters of one input group of 1, 2 or 3 bytes
B64Group(g) ==
  LET b1 == g[1]
      b2 == IF Len(g) >= 2 THEN g[2] ELSE 0
      b3 == IF Len(g) >= 3 THEN g[3] ELSE 0
      n  == b1 * 65536 + b2 * 256 + b3
  IN  << B64Char(n \div 262144),
         B64Char((n \div 4096) % 64),
         IF Len(g) >= 2 THEN B64Char((n \div 64) % 64) ELSE B64Pad,
         IF Len(g) >= 3 THEN B64Char(n % 64) ELSE B64Pad >>

RECURSIVE BadEncode(_)
BadEncode(bytes) ==
  IF bytes = <<>> THEN <<>>
  ELSE IF Len(bytes) <= 3 THEN B64Group(<<bytes[1]>>)
  ELSE B64Group(SubSeq(bytes, 1, 3)) \o BadEncode(SubSeq(bytes, 4, Len(bytes)))

\* BASE64.encode(&buf[..n])
RECURSIVE Base64Encode(_)
Base64Encode(bytes) ==
  IF bytes = <<>> THEN <<>>
  ELSE IF Len(bytes) <= 3 THEN B64Group(bytes)
  ELSE B64Group(SubSeq(bytes, 1, 3)) \o Base64Encode(SubSeq(bytes, 4, Len(bytes)))

\* the consumer's decoding of a payload (RFC 4648, padded)
B64Value(ch) == (CHOOSE i \in 1..64 : B64Alphabet[i] = ch) - 1
B64Ungroup(q) ==
  LET v3 == IF q[3] = B64Pad THEN 0 ELSE B64Value(q[3])
      v4 == IF q[4] = B64Pad THEN 0 ELSE B64Value(q[4])
      n  == B64Value(q[1]) * 262144 + B64Value(q[2]) * 4096 + v3 * 64 + v4
      all == << n \div 65536, (n \div 256) % 256, n % 256 >>
  IN  IF q[3] = B64Pad THEN SubSeq(all, 1, 1)
      ELSE IF q[4] = B64Pad THEN SubSeq(all, 1, 2)
      ELSE all

RECURSIVE Base64Decode(_)
Base64Decode(text) ==
  IF Len(text) < 4 THEN <<>>
  ELSE B64Ungroup(SubSeq(text, 1, 4)) \o Base64Decode(SubSeq(text, 5, Len(text)))

\* HashMap<String, PtyHandle> as the set of its (key, value) pairs
Keys(m) == {e[1] : e \in m}
Get(m, k) == (CHOOSE e \in m : e[1] = k)[2]
ClearMap(m, k) == {}
HashMapRemove(m, k) == {e \in m : e[1] # k}
LeakyInsert(m, k, v) == m \cup {<<k, v>>}
HashMapInsert(m, k, v) == {e \in m : e[1] # k} \cup {<<k, v>>}

\* ---- the program a spawn starts ------------------------------------------
\* `command: Option<String>`: None, or a program for the shell to run
None == "None"
Commands == {"make"}
\* std::env::var("SHELL").unwrap_or_else(|_| "/bin/zsh".to_string())
Shell == "/bin/zsh"
\* what a program can end with, and the mark of one that has not ended
ExitStatuses == {0, 1}
NoStatus == -1

StartupScriptOnSuccess(command, shell) ==
  << command, "&&", "exec", shell, "-l", "-i" >>

\* format!("{}; exec {} -l -i", command, shell), word by word
StartupScript(command, shell) ==
  << command, ";", "exec", shell, "-l", "-i" >>

\* c.args(["-l", "-i", "-c", ..]) with a command, c.args(["-l", "-i"]) without
ShellArgs(command) ==
  [flags |-> << "-l", "-i" >>,
   script |-> IF command # None THEN StartupScript(command, Shell) ELSE <<>>]

\* ---- the command spawn_remote sends to the remote host -------------------
\* text is a sequence of pieces: "'" and " " stand for themselves, any
\* other piece is a run of characters that are neither
\* `tmux_session: String`: the names w and w'
SessionNames == { << "w" >>, << "w", "'" >> }
\* `remote_cwd: String`
RemoteCwd == << "/srv" >>
\* `command: Option<String>` of spawn_remote_pty
RemoteCommands == {None, "top"}

TmuxCmdNoAttach(session, cwd, command) ==
  << "tmux", " ", "new-session", " ", "-s", " ", "'" >> \o session
    \o << "'", " ", "-c", " ", "'" >> \o cwd \o << "'" >>
    \o (IF command # None THEN << " ", "'", command, "'" >> ELSE <<>>)

\* format!("tmux new-session -A -s '{}' -c '{}' '{}'", ..) with a command,
\* format!("tmux new-session -A -s '{}' -c '{}'", ..) without
TmuxCmd(session, cwd, command) ==
  << "tmux", " ", "new-session", " ", "-A", " ", "-s", " ", "'" >> \o session
    \o << "'", " ", "-c", " ", "'" >> \o cwd \o << "'" >>
    \o (IF command # None THEN << " ", "'", command, "'" >> ELSE <<>>)

\* the remote shell splits the text into words: a blank outside quotes ends
\* a word, "'" opens or closes a quote and adds nothing; a quote left open
\* at the end is an error
NoWord == [on |-> FALSE, w |-> <<>>]
RECURSIVE ShSplit(_, _, _, _)
ShSplit(text, quoted, cur, words) ==
  IF text = <<>>
  THEN [ok |-> ~quoted,
        words |-> IF cur.on THEN Append(words, cur.w) ELSE words]
  ELSE IF Head(text) = "'"
  THEN ShSplit(Tail(text), ~quoted, [on |-> TRUE, w |-> cur.w], words)
  ELSE IF Head(text) = " " /\ ~quoted
  THEN ShSplit(Tail(text), FALSE, NoWord,
               IF cur.on THEN Append(words, cur.w) ELSE words)
  ELSE ShSplit(Tail(text), quoted,
               [on |-> TRUE, w |-> Append(cur.w, Head(text))], words)

\* the options of `tmux new-session`: -A, -s name, -c dir, then the command
NoOpts == [attach |-> FALSE, name |-> <<>>, dir |-> <<>>, cmd |-> <<>>]
RECURSIVE TmuxOpts(_, _)
TmuxOpts(ws, acc) ==
  IF ws = <<>> THEN acc
  ELSE IF Head(ws) = << "-A" >> THEN TmuxOpts(Tail(ws), [acc EXCEPT !.attach = TRUE])
  ELSE IF Head(ws) = << "-s" >> /\ Len(ws) >= 2
  THEN TmuxOpts(Tail(Tail(ws)), [acc EXCEPT !.name = ws[2]])
  ELSE IF Head(ws) = << "-c" >> /\ Len(ws) >= 2
  THEN TmuxOpts(Tail(Tail(ws)), [acc EXCEPT !.dir = ws[2]])
  ELSE [acc EXCEPT !.cmd = ws]

\* what the remote host makes of the text ssh hands to it
RemoteRun(text) ==
  LET s == ShSplit(text, FALSE, NoWord, <<>>)
  IN  IF s.ok /\ Len(s.words) >= 2
         /\ s.words[1] = << "tmux" >> /\ s.words[2] = << "new-session" >>
      THEN [ok |-> TRUE, opts |-> TmuxOpts(Tail(Tail(s.words)), NoOpts)]
      ELSE [ok |-> FALSE, opts |-> NoOpts]

\* ---- state ---------------------------------------------------------------
VARIABLES
  ptys,      \* the registry: the (id, handle) pairs of the HashMap
  lock,      \* the Mutex: 0 when free, else the caller holding the guard
  call,      \* per caller thread: the command it is in and where
  reply,     \* the value the step just taken returned to its caller, if any
  spent,     \* commands issued and moves of the environment so far
  nextH,     \* PTY pairs whose child was started so far
  handle,    \* per pair: its session id, and who holds master+writer+child
  master,    \* per pair: the terminal's (cols, rows)
  writer,    \* per pair: bytes handed to the child's input, how many were
             \* flushed, and how many the child has taken
  child,     \* per pair: the child process, the kill() calls made on it, what
             \* is left of the script its shell was given, the exit status
             \* of the startup command once that has ended, and for an ssh
             \* child the pair that created the remote session it is in
  term,      \* per pair: the bytes the child has printed on the terminal
  reader,    \* per pair: the reader thread: where it is, bytes consumed, buf[..n]
  events,    \* per pair: the pty-output-<id> events its reader thread published,
             \* each with the place (off, n) of its read in the terminal's output
             \* and with who held the pair when it was published
  lost,      \* per pair: bytes read whose emit failed
  exited,    \* std::process::exit was called
  drained,   \* kill_all_ptys has returned and no spawn has inserted since
  remote,    \* the multiplexer sessions alive on the remote host, each with
             \* its name, the pair whose ssh child created it and the startup
             \* commands run in it
  wt         \* the create_worktree call: where it is, the candidate it is
             \* at, the worktree paths and branches that exist, its result

vars == << ptys, lock, call, reply, spent, nextH, handle, master, writer, child,
           term, reader, events, lost, exited, drained, remote, wt >>

\* what a failed step of spawn leaves to the caller
SpawnFailures == {"openpty", "spawn_command", "try_clone_reader", "take_writer"}

\* a caller's locals: the command, where it is, its id, the pair it holds,
\* data.as_bytes() with the count write_all has written, the size asked for
Idle == [op |-> "none", step |-> "idle", id |-> NoId, h |-> 0,
         data |-> <<>>, n |-> 0, size |-> <<0, 0>>]

InCall(op, step, id, h, data, n, size) ==
  [op |-> op, step |-> step, id |-> id, h |-> h, data |-> data, n |-> n,
   size |-> size]

NoReply == [op |-> "none", id |-> NoId, val |-> "none"]

RECURSIVE SumLen(_, _)
SumLen(f, n) == IF n = 0 THEN 0 ELSE Len(f[n]) + SumLen(f, n - 1)

TotalOut == SumLen(term, MaxHandles)
TotalIn == SumLen([h \in H |-> writer[h].bytes], MaxHandles)

PtyInit ==
  /\ ptys = {}
  /\ lock = 0
  /\ call = [c \in Callers |-> Idle]
  /\ reply = NoReply
  /\ spent = 0
  /\ nextH = 0
  /\ handle = [h \in H |-> [id |-> NoId, own |-> "none"]]
  /\ master = [h \in H |-> <<0, 0>>]
  /\ writer = [h \in H |-> [bytes |-> <<>>, flushed |-> 0, taken |-> 0]]
  /\ child = [h \in H |-> [st |-> "none", kills |-> 0, prog |-> <<>>,
                            status |-> NoStatus, att |-> 0]]
  /\ term = [h \in H |-> <<>>]
  /\ reader = [h \in H |-> [st |-> "none", pos |-> 0, buf |-> <<>>]]
  /\ events = [h \in H |-> <<>>]
  /\ lost = [h \in H |-> 0]
  /\ exited = FALSE
  /\ drained = FALSE
  /\ remote = {}

\* ---- create_worktree (src-tauri/src/worktree.rs) --------------------------
\* for attempt in 0..20
Attempts == 20
\* generate_suffix: three hex digits taken from a hash of the seed and of
\* the clock, so any of the 4096 values at any attempt; some of them
Suffixes == {"000", "a1f", "fff"}

\* the messages of the errors create_worktree makes itself; any other error
\* is the text of an I/O error
AddFailed == "git worktree add failed"
NotUnique == "Failed to generate unique worktree path"
IoError == "io"

\* no call: phase is where the call is, attempt the turns of the loop that
\* are over, tried the candidates generated, suffix the candidate at hand,
\* paths and branches the candidates whose worktree path, or whose branch,
\* exists, adds the runs of `git worktree add`, result and info what the
\* call returned
NoWorktree ==
  [phase |-> "none", attempt |-> 0, tried |-> 0, suffix |-> "-",
   paths |-> {}, branches |-> {}, adds |-> 0, result |-> "none", info |-> "-"]

Init ==
  /\ PtyInit
  /\ wt = NoWorktree

\* one more command or move of the environment
Event ==
  /\ spent < MaxEvents
  /\ spent' = spent + 1

\* a caller thread is free to issue a command; the threads are alike, so
\* a command goes to the first free one
Ready(c) ==
  /\ ~exited
  /\ call[c].step = "idle"
  /\ \A d \in Callers : d < c => call[d].step # "idle"
  /\ Event
At(c, op, step) ==
  /\ ~exited
  /\ call[c].op = op
  /\ call[c].step = step
  /\ UNCHANGED spent

\* the command returns val to caller c
Return(c, op, id, val) ==
  /\ call' = [call EXCEPT ![c] = Idle]
  /\ reply' = [op |-> op, id |-> id, val |-> val]

Goto(c, op, step, id, h, data, n, size) ==
  /\ call' = [call EXCEPT ![c] = InCall(op, step, id, h, data, n, size)]
  /\ reply' = NoReply

\* the fields of a pair that openpty + spawn_command set; prog is the
\* script the child's shell is to run before it turns interactive
NewChild(h, id, size, own, prog) ==
  /\ nextH' = h
  /\ handle' = [handle EXCEPT ![h] = [id |-> id, own |-> own]]
  /\ master' = [master EXCEPT ![h] = size]
  /\ child' = [child EXCEPT ![h].st = "running", ![h].prog = prog]

\* a pair whose child is interactive from the start
NewPair(h, id, size, own) == NewChild(h, id, size, own, <<>>)

\* ptys.insert(id, PtyHandle {..}): the value it replaces is dropped
Inserted(id, h) ==
  /\ ptys' = HashMapInsert(ptys, id, h)
  /\ handle' = [x \in H |->
       IF x = h THEN [handle[x] EXCEPT !.own = "map"]
       ELSE IF <<id, x>> \in ptys THEN [handle[x] EXCEPT !.own = "dropped"]
       ELSE handle[x]]
  /\ drained' = FALSE

\* ---- spawn_pty -----------------------------------------------------------
EagerSpawnOpen(c, id, size, outcome) ==
  /\ Ready(c)
  /\ IF outcome \in {"openpty", "spawn_command"}
     THEN /\ Return(c, "spawn_pty", id, "Err")
          /\ UNCHANGED << ptys, nextH, handle, master, child, remote, wt >>
     ELSE /\ nextH < MaxHandles
          /\ IF outcome = "ok"
             THEN /\ NewPair(nextH + 1, id, size, "caller")
                  /\ Goto(c, "spawn_pty", "insert", id, nextH + 1, <<>>, 0, size)
                  /\ UNCHANGED ptys
             ELSE /\ NewPair(nextH + 1, id, size, "map")
                  /\ ptys' = HashMapInsert(ptys, id, nextH + 1)
                  /\ Return(c, "spawn_pty", id, "Err")
  /\ UNCHANGED << lock, writer, term, reader, events, lost, exited, drained, remote, wt >>

SpawnOpenEarlyReader(c, id, size, outcome) ==
  /\ Ready(c)
  /\ IF outcome \in {"openpty", "spawn_command"}
     THEN /\ Return(c, "spawn_pty", id, "Err")
          /\ UNCHANGED << nextH, handle, master, child, reader, remote, wt >>
     ELSE /\ nextH < MaxHandles
          /\ IF outcome = "ok"
             THEN /\ NewPair(nextH + 1, id, size, "caller")
                  /\ reader' = [reader EXCEPT ![nextH + 1].st = "read"]
                  /\ Goto(c, "spawn_pty", "insert", id, nextH + 1, <<>>, 0, size)
             ELSE /\ NewPair(nextH + 1, id, size, "dropped")
                  /\ UNCHANGED reader
                  /\ Return(c, "spawn_pty", id, "Err")
  /\ UNCHANGED << ptys, lock, writer, term, events, lost, exited, drained, remote, wt >>

\* openpty, spawn_command, try_clone_reader, take_writer: all on objects no
\* other thread can reach yet; `?` returns the first error
SpawnWith(c, id, size, command, outcome) ==
  /\ Ready(c)
  /\ IF outcome \in {"openpty", "spawn_command"}
     THEN /\ Return(c, "spawn_pty", id, "Err")
          /\ UNCHANGED << nextH, handle, master, child, remote, wt >>
     ELSE /\ nextH < MaxHandles
          /\ IF outcome = "ok"
             THEN /\ NewChild(nextH + 1, id, size, "caller", ShellArgs(command).script)
                  /\ Goto(c, "spawn_pty", "insert", id, nextH + 1, <<>>, 0, size)
             ELSE /\ NewChild(nextH + 1, id, size, "dropped", ShellArgs(command).script)
                  /\ Return(c, "spawn_pty", id, "Err")
  /\ UNCHANGED << ptys, lock, writer, term, reader, events, lost, exited, drained, remote, wt >>

\* spawn_pty with command = None
SpawnOpen(c, id, size, outcome) == SpawnWith(c, id, size, None, outcome)

SpawnInsertTeardown(c) ==
  /\ At(c, "spawn_pty", "insert")
  /\ lock = 0
  /\ Inserted(call[c].id, call[c].h)
  /\ child' = [x \in H |->
       IF <<call[c].id, x>> \in ptys THEN [child[x] EXCEPT !.kills = @ + 1]
       ELSE child[x]]
  /\ Goto(c, "spawn_pty", "thread", call[c].id, call[c].h, <<>>, 0, call[c].size)
  /\ UNCHANGED << lock, nextH, master, writer, term, reader, events,
                  lost, exited, remote, wt >>

\* { let mut ptys = state.lock().unwrap(); ptys.insert(..); }
SpawnInsert(c) ==
  /\ At(c, "spawn_pty", "insert")
  /\ lock = 0
  /\ Inserted(call[c].id, call[c].h)
  /\ Goto(c, "spawn_pty", "thread", call[c].id, call[c].h, <<>>, 0, call[c].size)
  /\ UNCHANGED << lock, nextH, master, writer, child, term, reader, events,
                  lost, exited, remote, wt >>

\* thread::spawn(move || loop { reader.read(..) .. }); Ok(())
SpawnThread(c) ==
  /\ At(c, "spawn_pty", "thread")
  /\ reader' = [reader EXCEPT ![call[c].h].st = "read"]
  /\ Return(c, "spawn_pty", call[c].id, "Ok")
  /\ UNCHANGED << ptys, lock, nextH, handle, master, writer, child, term,
                  events, lost, exited, drained, remote, wt >>

\* ---- spawn_remote_pty ----------------------------------------------------
RemoteOpen(c, id, size, outcome) ==
  /\ Ready(c)
  /\ IF outcome \in {"openpty", "spawn_command"}
     THEN /\ Return(c, "spawn_remote_pty", id, "Err")
          /\ UNCHANGED << nextH, handle, master, child, remote, wt >>
     ELSE /\ nextH < MaxHandles
          /\ IF outcome = "ok"
             THEN /\ NewPair(nextH + 1, id, size, "caller")
                  /\ Goto(c, "spawn_remote_pty", "insert", id, nextH + 1, <<>>, 0, size)
             ELSE /\ NewPair(nextH + 1, id, size, "dropped")
                  /\ Return(c, "spawn_remote_pty", id, "Err")
  /\ UNCHANGED << ptys, lock, writer, term, reader, events, lost, exited, drained, remote, wt >>

\* spawn_remote_pty with the command ssh is to run on the remote host
RemoteWith(c, id, size, session, command, outcome) ==
  /\ Ready(c)
  /\ IF outcome \in {"openpty", "spawn_command"}
     THEN /\ Return(c, "spawn_remote_pty", id, "Err")
          /\ UNCHANGED << nextH, handle, master, child, wt >>
     ELSE /\ nextH < MaxHandles
          /\ IF outcome = "ok"
             THEN /\ NewChild(nextH + 1, id, size, "caller",
                              TmuxCmd(session, RemoteCwd, command))
                  /\ Goto(c, "spawn_remote_pty", "insert", id, nextH + 1, <<>>, 0, size)
             ELSE /\ NewChild(nextH + 1, id, size, "dropped",
                              TmuxCmd(session, RemoteCwd, command))
                  /\ Return(c, "spawn_remote_pty", id, "Err")
  /\ UNCHANGED << ptys, lock, writer, term, reader, events, lost, exited,
                  drained, remote, wt >>

RemoteInsertKeepsOld(c) ==
  /\ At(c, "spawn_remote_pty", "insert")
  /\ lock = 0
  /\ ptys' = LeakyInsert(ptys, call[c].id, call[c].h)
  /\ handle' = [handle EXCEPT ![call[c].h].own = "map"]
  /\ drained' = FALSE
  /\ Goto(c, "spawn_remote_pty", "thread", call[c].id, call[c].h, <<>>, 0, call[c].size)
  /\ UNCHANGED << lock, nextH, master, writer, child, term, reader, events,
                  lost, exited, remote, wt >>

RemoteInsert(c) ==
  /\ At(c, "spawn_remote_pty", "insert")
  /\ lock = 0
  /\ Inserted(call[c].id, call[c].h)
  /\ Goto(c, "spawn_remote_pty", "thread", call[c].id, call[c].h, <<>>, 0, call[c].size)
  /\ UNCHANGED << lock, nextH, master, writer, child, term, reader, events,
                  lost, exited, remote, wt >>

RemoteThread(c) ==
  /\ At(c, "spawn_remote_pty", "thread")
  /\ reader' = [reader EXCEPT ![call[c].h].st = "read"]
  /\ Return(c, "spawn_remote_pty", call[c].id, "Ok")
  /\ UNCHANGED << ptys, lock, nextH, handle, master, writer, child, term,
                  events, lost, exited, drained, remote, wt >>

\* ---- the reader thread of a pair ----------------------------------------
ReaderReadById(h, n) ==
  /\ ~exited
  /\ reader[h].st = "read"
  /\ LET t == IF handle[h].id \in Keys(ptys) THEN Get(ptys, handle[h].id) ELSE h
     IN  /\ n \in 1..Min(Len(term[t]) - reader[t].pos, BufSize)
         /\ reader' = [reader EXCEPT
              ![t].pos = reader[t].pos + n,
              ![h].st = "emit",
              ![h].buf = SubSeq(term[t], reader[t].pos + 1, reader[t].pos + n)]
  /\ reply' = NoReply
  /\ UNCHANGED << ptys, lock, call, spent, nextH, handle, master, writer,
                  child, term, events, lost, exited, drained, remote, wt >>

\* reader.read(&mut buf) returns Ok(n), 0 < n <= buf.len()
ReaderRead(h, n) ==
  /\ ~exited
  /\ reader[h].st = "read"
  /\ n \in 1..Min(Len(term[h]) - reader[h].pos, BufSize)
  /\ reader' = [reader EXCEPT ![h] =
       [st |-> "emit", pos |-> reader[h].pos + n,
        buf |-> SubSeq(term[h], reader[h].pos + 1, reader[h].pos + n)]]
  /\ reply' = NoReply
  /\ UNCHANGED << ptys, lock, call, spent, nextH, handle, master, writer,
                  child, term, events, lost, exited, drained, remote, wt >>

ReaderEmitFront(h, ok) ==
  /\ ~exited
  /\ reader[h].st = "emit"
  /\ IF ok
     THEN /\ events' = [events EXCEPT ![h] =
               << [id |-> handle[h].id, payload |-> Base64Encode(reader[h].buf),
                   off |-> reader[h].pos - Len(reader[h].buf),
                   n |-> Len(reader[h].buf), held |-> handle[h].own] >> \o @]
          /\ UNCHANGED lost
     ELSE /\ lost' = [lost EXCEPT ![h] = @ + Len(reader[h].buf)]
          /\ UNCHANGED events
  /\ reader' = [reader EXCEPT ![h].st = "read", ![h].buf = <<>>]
  /\ reply' = NoReply
  /\ UNCHANGED << ptys, lock, call, spent, nextH, handle, master, writer,
                  child, term, exited, drained, remote, wt >>

ReaderEmitUnregisters(h, ok) ==
  /\ ~exited
  /\ reader[h].st = "emit"
  /\ IF ok
     THEN /\ events' = [events EXCEPT ![h] = Append(@,
               [id |-> handle[h].id, payload |-> Base64Encode(reader[h].buf),
                off |-> reader[h].pos - Len(reader[h].buf),
                n |-> Len(reader[h].buf), held |-> handle[h].own])]
          /\ UNCHANGED << lost, ptys, wt >>
     ELSE /\ lost' = [lost EXCEPT ![h] = @ + Len(reader[h].buf)]
          /\ ptys' = {e \in ptys : e[2] # h}
          /\ UNCHANGED events
  /\ reader' = [reader EXCEPT ![h].st = "read", ![h].buf = <<>>]
  /\ reply' = NoReply
  /\ UNCHANGED << lock, call, spent, nextH, handle, master, writer,
                  child, term, exited, drained, remote, wt >>

\* let encoded = BASE64.encode(&buf[..n]);
\* let _ = app.emit(&format!("pty-output-{}", event_id), encoded);
ReaderEmit(h, ok) ==
  /\ ~exited
  /\ reader[h].st = "emit"
  /\ IF ok
     THEN /\ events' = [events EXCEPT ![h] = Append(@,
               [id |-> handle[h].id, payload |-> Base64Encode(reader[h].buf),
                off |-> reader[h].pos - Len(reader[h].buf),
                n |-> Len(reader[h].buf), held |-> handle[h].own])]
          /\ UNCHANGED lost
     ELSE /\ lost' = [lost EXCEPT ![h] = @ + Len(reader[h].buf)]
          /\ UNCHANGED events
  /\ reader' = [reader EXCEPT ![h].st = "read", ![h].buf = <<>>]
  /\ reply' = NoReply
  /\ UNCHANGED << ptys, lock, call, spent, nextH, handle, master, writer,
                  child, term, exited, drained, remote, wt >>

ReaderEofReap(h) ==
  /\ ~exited
  /\ reader[h].st = "read"
  /\ child[h].st = "exited"
  /\ reader[h].pos = Len(term[h])
  /\ reader' = [reader EXCEPT ![h].st = "stopped"]
  /\ ptys' = {e \in ptys : e[2] # h}
  /\ reply' = NoReply
  /\ UNCHANGED << lock, call, spent, nextH, handle, master, writer,
                  child, term, events, lost, exited, drained, remote, wt >>

ReaderEofRetries(h) ==
  /\ ~exited
  /\ reader[h].st = "read"
  /\ child[h].st = "exited"
  /\ reader[h].pos = Len(term[h])
  /\ reply' = NoReply
  /\ UNCHANGED << ptys, lock, call, spent, nextH, handle, master, writer,
                  child, term, reader, events, lost, exited, drained, remote, wt >>

\* Ok(0) => break: the terminal is closed and nothing is left to read
ReaderEof(h) ==
  /\ ~exited
  /\ reader[h].st = "read"
  /\ child[h].st = "exited"
  /\ reader[h].pos = Len(term[h])
  /\ reader' = [reader EXCEPT ![h].st = "stopped"]
  /\ reply' = NoReply
  /\ UNCHANGED << ptys, lock, call, spent, nextH, handle, master, writer,
                  child, term, events, lost, exited, drained, remote, wt >>

ReaderErrUnregisters(h) ==
  /\ Event
  /\ ~exited
  /\ reader[h].st = "read"
  /\ reader' = [reader EXCEPT ![h].st = "stopped"]
  /\ ptys' = {e \in ptys : e[2] # h}
  /\ reply' = NoReply
  /\ UNCHANGED << lock, call, nextH, handle, master, writer,
                  child, term, events, lost, exited, drained, remote, wt >>

\* Err(_) => break
ReaderErr(h) ==
  /\ Event
  /\ ~exited
  /\ reader[h].st = "read"
  /\ reader' = [reader EXCEPT ![h].st = "stopped"]
  /\ reply' = NoReply
  /\ UNCHANGED << ptys, lock, call, nextH, handle, master, writer,
                  child, term, events, lost, exited, drained, remote, wt >>

\* ---- the child processes (the environment) -------------------------------
ChildOutput(h, k) ==
  /\ Event
  /\ child[h].st = "running"
  /\ TotalOut + k <= MaxOutput
  /\ term' = [term EXCEPT ![h] =
       @ \o [i \in 1..k |-> OutBytes[((TotalOut + i - 1) % Len(OutBytes)) + 1]]]
  /\ reply' = NoReply
  /\ UNCHANGED << ptys, lock, call, nextH, handle, master, writer,
                  child, reader, events, lost, exited, drained, remote, wt >>

ChildExit(h) ==
  /\ Event
  /\ child[h].st = "running"
  /\ child' = [child EXCEPT ![h].st = "exited"]
  /\ reply' = NoReply
  /\ UNCHANGED << ptys, lock, call, nextH, handle, master, writer,
                  term, reader, events, lost, exited, drained, remote, wt >>

\* the startup command of pair h ends with a status, and the shell goes on
\* with its script: after `;` whatever the status, after `&&` when it is 0.
\* `exec shell -l -i` turns the process into an interactive shell; a script
\* that is over ends the process.
CommandEnds(h, status) ==
  /\ Event
  /\ child[h].st = "running"
  /\ child[h].prog # <<>>
  /\ child[h].prog[1] \in Commands
  /\ LET sep == child[h].prog[2]
         rest == SubSeq(child[h].prog, 3, Len(child[h].prog))
     IN  IF (sep = ";" \/ (sep = "&&" /\ status = 0)) /\ rest[1] = "exec"
         THEN child' = [child EXCEPT ![h].prog = <<>>, ![h].status = status]
         ELSE child' = [child EXCEPT ![h].st = "exited", ![h].status = status]
  /\ reply' = NoReply
  /\ UNCHANGED << ptys, lock, call, nextH, handle, master, writer,
                  term, reader, events, lost, exited, drained, remote, wt >>

SshConnectRunsAgain(h) ==
  /\ child[h].st = "running"
  /\ child[h].att = 0
  /\ child[h].prog # <<>>
  /\ child[h].prog[1] = "tmux"
  /\ LET run == RemoteRun(child[h].prog)
         same == {s \in remote : s.name = run.opts.name}
         ran == IF run.opts.cmd = <<>> THEN <<>> ELSE << run.opts.cmd >>
     IN  IF ~run.ok \/ (same # {} /\ ~run.opts.attach)
         THEN /\ child' = [child EXCEPT ![h].st = "exited"]
              /\ UNCHANGED remote
         ELSE IF same # {}
         THEN /\ child' = [child EXCEPT ![h].att = (CHOOSE s \in same : TRUE).by]
              /\ remote' = (remote \ same)
                   \cup {[s EXCEPT !.ran = @ \o ran] : s \in same}
         ELSE /\ child' = [child EXCEPT ![h].att = h]
              /\ remote' = remote \cup
                   {[name |-> run.opts.name, by |-> h, ran |-> ran]}
  /\ reply' = NoReply
  /\ UNCHANGED << ptys, lock, call, spent, nextH, handle, master, writer,
                  term, reader, events, lost, exited, drained, wt >>

\* ssh of pair h has logged in and the remote host runs the text: new-session
\* makes a session under the name when none is alive and runs the command
\* in it; when one is, -A joins it and the command is left aside, and
\* without -A the name is refused. ssh ends when the text fails.
SshConnect(h) ==
  /\ child[h].st = "running"
  /\ child[h].att = 0
  /\ child[h].prog # <<>>
  /\ child[h].prog[1] = "tmux"
  /\ LET run == RemoteRun(child[h].prog)
         same == {s \in remote : s.name = run.opts.name}
     IN  IF ~run.ok \/ (same # {} /\ ~run.opts.attach)
         THEN /\ child' = [child EXCEPT ![h].st = "exited"]
              /\ UNCHANGED remote
         ELSE IF same # {}
         THEN /\ child' = [child EXCEPT ![h].att = (CHOOSE s \in same : TRUE).by]
              /\ UNCHANGED remote
         ELSE /\ child' = [child EXCEPT ![h].att = h]
              /\ remote' = remote \cup
                   {[name |-> run.opts.name, by |-> h,
                     ran |-> IF run.opts.cmd = <<>> THEN <<>>
                             ELSE << run.opts.cmd >>]}
  /\ reply' = NoReply
  /\ UNCHANGED << ptys, lock, call, spent, nextH, handle, master, writer,
                  term, reader, events, lost, exited, drained, wt >>

\* a session on the remote host ends; the ssh children that are in it end
TmuxExit(s) ==
  /\ Event
  /\ s \in remote
  /\ remote' = remote \ {s}
  /\ child' = [x \in H |->
       IF child[x].att = s.by /\ child[x].st = "running"
       THEN [child[x] EXCEPT !.st = "exited"] ELSE child[x]]
  /\ reply' = NoReply
  /\ UNCHANGED << ptys, lock, call, nextH, handle, master, writer,
                  term, reader, events, lost, exited, drained, wt >>

\* the child of pair h ends on the kill() made on it
ChildKilled(h) ==
  /\ child[h].st = "running"
  /\ child[h].kills > 0
  /\ child' = [child EXCEPT ![h].st = "exited"]
  /\ reply' = NoReply
  /\ UNCHANGED << ptys, lock, call, spent, nextH, handle, master, writer,
                  term, reader, events, lost, exited, drained, remote, wt >>

\* input the terminal of pair h holds that its child has not read
Pending(h) == Len(writer[h].bytes) - writer[h].taken

\* the child reads what the terminal holds for it. A read from a terminal
\* that still has room changes nothing a command can observe, so the step
\* is taken when the terminal is full.
ChildInput(h) ==
  /\ child[h].st = "running"
  /\ Pending(h) >= PtyCapacity
  /\ writer' = [writer EXCEPT ![h].taken = Len(writer[h].bytes)]
  /\ reply' = NoReply
  /\ UNCHANGED << ptys, lock, call, spent, nextH, handle, master, child,
                  term, reader, events, lost, exited, drained, remote, wt >>

\* ---- write_pty ------------------------------------------------------------
StrictWriteLookup(c, id, data) ==
  /\ Ready(c)
  /\ lock = 0
  /\ IF id \in Keys(ptys)
     THEN /\ TotalIn + Len(as_bytes(data)) <= MaxInput
          /\ lock' = c
          /\ Goto(c, "write_pty",
                  IF as_bytes(data) = <<>> THEN "flush" ELSE "write_all",
                  id, Get(ptys, id), as_bytes(data), 0, <<0, 0>>)
     ELSE /\ UNCHANGED lock
          /\ Return(c, "write_pty", id, "Err")
  /\ UNCHANGED << ptys, nextH, handle, master, writer, child, term, reader,
                  events, lost, exited, drained, remote, wt >>

UnlockedWriteLookup(c, id, data) ==
  /\ Ready(c)
  /\ lock = 0
  /\ IF id \in Keys(ptys)
     THEN /\ TotalIn + Len(as_bytes(data)) <= MaxInput
          /\ Goto(c, "write_pty",
                  IF as_bytes(data) = <<>> THEN "flush" ELSE "write_all",
                  id, Get(ptys, id), as_bytes(data), 0, <<0, 0>>)
     ELSE Return(c, "write_pty", id, "Ok")
  /\ UNCHANGED << ptys, lock, nextH, handle, master, writer, child, term,
                  reader, events, lost, exited, drained, remote, wt >>

\* let mut ptys = state.lock().unwrap(); if let Some(pty) = ptys.get_mut(&id)
WriteLookup(c, id, data) ==
  /\ Ready(c)
  /\ lock = 0
  /\ IF id \in Keys(ptys)
     THEN /\ TotalIn + Len(as_bytes(data)) <= MaxInput
          /\ lock' = c
          /\ Goto(c, "write_pty",
                  IF as_bytes(data) = <<>> THEN "flush" ELSE "write_all",
                  id, Get(ptys, id), as_bytes(data), 0, <<0, 0>>)
     ELSE /\ UNCHANGED lock
          /\ Return(c, "write_pty", id, "Ok")
  /\ UNCHANGED << ptys, nextH, handle, master, writer, child, term, reader,
                  events, lost, exited, drained, remote, wt >>

WriteOnce(c) ==
  /\ At(c, "write_pty", "write_all")
  /\ Pending(call[c].h) < PtyCapacity
  /\ writer' = [writer EXCEPT ![call[c].h].bytes =
                  Append(@, call[c].data[call[c].n + 1])]
  /\ Goto(c, "write_pty", "flush",
          call[c].id, call[c].h, call[c].data, call[c].n + 1, <<0, 0>>)
  /\ UNCHANGED << ptys, lock, nextH, handle, master, child, term, reader,
                  events, lost, exited, drained, remote, wt >>

\* pty.writer.write_all(data.as_bytes()): write() until nothing is left; a
\* write() waits while the terminal holds all the input it can
WriteAll(c) ==
  /\ At(c, "write_pty", "write_all")
  /\ Pending(call[c].h) < PtyCapacity
  /\ writer' = [writer EXCEPT ![call[c].h].bytes =
                  Append(@, call[c].data[call[c].n + 1])]
  /\ Goto(c, "write_pty",
          IF call[c].n + 1 = Len(call[c].data) THEN "flush" ELSE "write_all",
          call[c].id, call[c].h, call[c].data, call[c].n + 1, <<0, 0>>)
  /\ UNCHANGED << ptys, lock, nextH, handle, master, child, term, reader,
                  events, lost, exited, drained, remote, wt >>

WriteAllErrUnregisters(c) ==
  /\ At(c, "write_pty", "write_all")
  /\ lock' = 0
  /\ ptys' = HashMapRemove(ptys, call[c].id)
  /\ handle' = [handle EXCEPT ![call[c].h].own = "dropped"]
  /\ Return(c, "write_pty", call[c].id, "Err")
  /\ UNCHANGED << nextH, master, writer, child, term, reader,
                  events, lost, exited, drained, remote, wt >>

\* .map_err(|e| e.to_string())?  of write_all: the guard is dropped on return
WriteAllErr(c) ==
  /\ At(c, "write_pty", "write_all")
  /\ lock' = 0
  /\ Return(c, "write_pty", call[c].id, "Err")
  /\ UNCHANGED << ptys, nextH, handle, master, writer, child, term, reader,
                  events, lost, exited, drained, remote, wt >>

\* pty.writer.flush().map_err(|e| e.to_string())?; Ok(())
WriteFlush(c, ok) ==
  /\ At(c, "write_pty", "flush")
  /\ IF ok
     THEN /\ writer' = [writer EXCEPT ![call[c].h].flushed = Len(writer[call[c].h].bytes)]
          /\ Return(c, "write_pty", call[c].id, "Ok")
     ELSE /\ UNCHANGED writer
          /\ Return(c, "write_pty", call[c].id, "Err")
  /\ lock' = 0
  /\ UNCHANGED << ptys, nextH, handle, master, child, term, reader,
                  events, lost, exited, drained, remote, wt >>

\* ---- resize_pty -----------------------------------------------------------
\* let ptys = state.lock().unwrap(); if let Some(pty) = ptys.get(&id)
ResizeLookup(c, id, size) ==
  /\ Ready(c)
  /\ lock = 0
  /\ IF id \in Keys(ptys)
     THEN /\ lock' = c
          /\ Goto(c, "resize_pty", "resize", id, Get(ptys, id), <<>>, 0, size)
     ELSE /\ UNCHANGED lock
          /\ Return(c, "resize_pty", id, "Ok")
  /\ UNCHANGED << ptys, nextH, handle, master, writer, child, term, reader,
                  events, lost, exited, drained, remote, wt >>

ResizeSwapped(c, ok) ==
  /\ At(c, "resize_pty", "resize")
  /\ IF ok
     THEN /\ master' = [master EXCEPT ![call[c].h] = <<call[c].size[2], call[c].size[1]>>]
          /\ Return(c, "resize_pty", call[c].id, "Ok")
     ELSE /\ UNCHANGED master
          /\ Return(c, "resize_pty", call[c].id, "Err")
  /\ lock' = 0
  /\ UNCHANGED << ptys, nextH, handle, writer, child, term, reader,
                  events, lost, exited, drained, remote, wt >>

\* pty.master.resize(PtySize {..}).map_err(|e| e.to_string())?; Ok(())
ResizeApply(c, ok) ==
  /\ At(c, "resize_pty", "resize")
  /\ IF ok
     THEN /\ master' = [master EXCEPT ![call[c].h] = call[c].size]
          /\ Return(c, "resize_pty", call[c].id, "Ok")
     ELSE /\ UNCHANGED master
          /\ Return(c, "resize_pty", call[c].id, "Err")
  /\ lock' = 0
  /\ UNCHANGED << ptys, nextH, handle, writer, child, term, reader,
                  events, lost, exited, drained, remote, wt >>

\* ---- kill_pty -------------------------------------------------------------
KillRemoveUnlocked(c, id) ==
  /\ Ready(c)
  /\ IF id \in Keys(ptys)
     THEN /\ lock' = c
          /\ ptys' = HashMapRemove(ptys, id)
          /\ handle' = [handle EXCEPT ![Get(ptys, id)].own = "caller"]
          /\ Goto(c, "kill_pty", "kill", id, Get(ptys, id), <<>>, 0, <<0, 0>>)
     ELSE /\ UNCHANGED << lock, ptys, handle, remote, wt >>
          /\ Return(c, "kill_pty", id, "Ok")
  /\ UNCHANGED << nextH, master, writer, child, term, reader,
                  events, lost, exited, drained, remote, wt >>

KillRemoveKeepsEntry(c, id) ==
  /\ Ready(c)
  /\ lock = 0
  /\ IF id \in Keys(ptys)
     THEN /\ lock' = c
          /\ Goto(c, "kill_pty", "kill", id, Get(ptys, id), <<>>, 0, <<0, 0>>)
     ELSE /\ UNCHANGED lock
          /\ Return(c, "kill_pty", id, "Ok")
  /\ UNCHANGED << ptys, handle, nextH, master, writer, child, term, reader,
                  events, lost, exited, drained, remote, wt >>

\* let mut ptys = state.lock().unwrap(); if let Some(mut pty) = ptys.remove(&id)
KillRemove(c, id) ==
  /\ Ready(c)
  /\ lock = 0
  /\ IF id \in Keys(ptys)
     THEN /\ lock' = c
          /\ ptys' = HashMapRemove(ptys, id)
          /\ handle' = [handle EXCEPT ![Get(ptys, id)].own = "caller"]
          /\ Goto(c, "kill_pty", "kill", id, Get(ptys, id), <<>>, 0, <<0, 0>>)
     ELSE /\ UNCHANGED << lock, ptys, handle, remote, wt >>
          /\ Return(c, "kill_pty", id, "Ok")
  /\ UNCHANGED << nextH, master, writer, child, term, reader,
                  events, lost, exited, drained, remote, wt >>

KilledKeptOnFailure(h, ok) ==
  /\ child' = [child EXCEPT ![h].kills = @ + 1]
  /\ handle' = [handle EXCEPT ![h].own = IF ok THEN "dropped" ELSE "map"]

\* child.kill() on a pair taken out of the map; the result is thrown away
\* and the pair is dropped
Killed(h, ok) ==
  /\ child' = [child EXCEPT ![h].kills = @ + 1]
  /\ handle' = [handle EXCEPT ![h].own = "dropped"]

KillSignalReports(c, ok) ==
  /\ At(c, "kill_pty", "kill")
  /\ Killed(call[c].h, ok)
  /\ lock' = 0
  /\ Return(c, "kill_pty", call[c].id, IF ok THEN "Ok" ELSE "Err")
  /\ UNCHANGED << ptys, nextH, master, writer, term, reader,
                  events, lost, exited, drained, remote, wt >>

KillSignalWaits(c, ok) ==
  /\ At(c, "kill_pty", "kill")
  /\ child[call[c].h].st = "exited"
  /\ Killed(call[c].h, ok)
  /\ lock' = 0
  /\ Return(c, "kill_pty", call[c].id, "Ok")
  /\ UNCHANGED << ptys, nextH, master, writer, term, reader,
                  events, lost, exited, drained, remote, wt >>

\* let _ = pty.child.kill(); } Ok(())
KillSignal(c, ok) ==
  /\ At(c, "kill_pty", "kill")
  /\ Killed(call[c].h, ok)
  /\ lock' = 0
  /\ Return(c, "kill_pty", call[c].id, "Ok")
  /\ UNCHANGED << ptys, nextH, master, writer, term, reader,
                  events, lost, exited, drained, remote, wt >>

\* ---- get_active_pty_count ---------------------------------------------------
CountLive(c) ==
  /\ Ready(c)
  /\ lock = 0
  /\ Return(c, "get_active_pty_count", NoId,
            Cardinality({e \in ptys : child[e[2]].st = "running"}))
  /\ UNCHANGED << ptys, lock, nextH, handle, master, writer, child, term,
                  reader, events, lost, exited, drained, remote, wt >>

\* let ptys = state.lock().unwrap(); ptys.len()
Count(c) ==
  /\ Ready(c)
  /\ lock = 0
  /\ Return(c, "get_active_pty_count", NoId, Cardinality(ptys))
  /\ UNCHANGED << ptys, lock, nextH, handle, master, writer, child, term,
                  reader, events, lost, exited, drained, remote, wt >>

\* ---- kill_all_ptys ----------------------------------------------------------
\* let mut ptys = state.lock().unwrap();
KillAllLock(c) ==
  /\ Ready(c)
  /\ lock = 0
  /\ lock' = c
  /\ Goto(c, "kill_all_ptys", "drain", NoId, 0, <<>>, 0, <<0, 0>>)
  /\ UNCHANGED << ptys, nextH, handle, master, writer, child, term, reader,
                  events, lost, exited, drained, remote, wt >>

\* one turn of: for (_, mut pty) in ptys.drain() { let _ = pty.child.kill(); }
DrainNext(e, ok) ==
  /\ e \in ptys
  /\ ptys' = ptys \ {e}
  /\ Killed(e[2], ok)

KillAllNextYields(c, e, ok) ==
  /\ At(c, "kill_all_ptys", "drain")
  /\ DrainNext(e, ok)
  /\ lock' = 0
  /\ reply' = NoReply
  /\ UNCHANGED << call, nextH, master, writer, term, reader,
                  events, lost, exited, drained, remote, wt >>

KillAllNext(c, e, ok) ==
  /\ At(c, "kill_all_ptys", "drain")
  /\ DrainNext(e, ok)
  /\ reply' = NoReply
  /\ UNCHANGED << lock, call, nextH, master, writer, term, reader,
                  events, lost, exited, drained, remote, wt >>

KillAllReturnEarly(c) ==
  /\ At(c, "kill_all_ptys", "drain")
  /\ lock' = 0
  /\ drained' = TRUE
  /\ Return(c, "kill_all_ptys", NoId, "Ok")
  /\ UNCHANGED << ptys, nextH, handle, master, writer, child, term, reader,
                  events, lost, exited, remote, wt >>

\* the drain is over: Ok(()), and the guard is dropped
KillAllReturn(c) ==
  /\ At(c, "kill_all_ptys", "drain")
  /\ ptys = {}
  /\ lock' = 0
  /\ drained' = TRUE
  /\ Return(c, "kill_all_ptys", NoId, "Ok")
  /\ UNCHANGED << ptys, nextH, handle, master, writer, child, term, reader,
                  events, lost, exited, remote, wt >>

\* ---- force_exit -------------------------------------------------------------
\* { let mut ptys = state.lock().unwrap();
ForceExitLock(c) ==
  /\ Ready(c)
  /\ lock = 0
  /\ lock' = c
  /\ Goto(c, "force_exit", "drain", NoId, 0, <<>>, 0, <<0, 0>>)
  /\ UNCHANGED << ptys, nextH, handle, master, writer, child, term, reader,
                  events, lost, exited, drained, remote, wt >>

\*   for (_, mut pty) in ptys.drain() { let _ = pty.child.kill(); }
ForceExitNext(c, e, ok) ==
  /\ At(c, "force_exit", "drain")
  /\ DrainNext(e, ok)
  /\ reply' = NoReply
  /\ UNCHANGED << lock, call, nextH, master, writer, term, reader,
                  events, lost, exited, drained, remote, wt >>

ForceExitUnlockEarly(c) ==
  /\ At(c, "force_exit", "drain")
  /\ lock' = 0
  /\ Goto(c, "force_exit", "exit", NoId, 0, <<>>, 0, <<0, 0>>)
  /\ UNCHANGED << ptys, nextH, handle, master, writer, child, term, reader,
                  events, lost, exited, drained, remote, wt >>

\* } the block ends: the guard is dropped
ForceExitUnlock(c) ==
  /\ At(c, "force_exit", "drain")
  /\ ptys = {}
  /\ lock' = 0
  /\ Goto(c, "force_exit", "exit", NoId, 0, <<>>, 0, <<0, 0>>)
  /\ UNCHANGED << ptys, nextH, handle, master, writer, child, term, reader,
                  events, lost, exited, drained, remote, wt >>

\* std::process::exit(0): every thread of the process ends with it
ForceExit(c) ==
  /\ At(c, "force_exit", "exit")
  /\ exited' = TRUE
  /\ reply' = NoReply
  /\ UNCHANGED << ptys, lock, call, spent, nextH, handle, master, writer,
                  child, term, reader, events, lost, drained, remote, wt >>

\* ---- the system ------------------------------------------------------------
Next ==
  \/ \E c \in Callers, id \in Ids, size \in SpawnSizes,
        outcome \in SpawnFailures \cup {"ok"} :
       \/ SpawnOpen(c, id, size, outcome)
       \/ RemoteOpen(c, id, size, outcome)
  \/ \E c \in Callers :
       \/ SpawnInsert(c)
       \/ SpawnThread(c)
       \/ RemoteInsert(c)
       \/ RemoteThread(c)
  \/ \E c \in Callers, id \in Ids, data \in Strings : WriteLookup(c, id, data)
  \/ \E c \in Callers : WriteAll(c) \/ WriteAllErr(c)
  \/ \E c \in Callers, ok \in BOOLEAN : WriteFlush(c, ok)
  \/ \E c \in Callers, id \in Ids, size \in Sizes : ResizeLookup(c, id, size)
  \/ \E c \in Callers, ok \in BOOLEAN : ResizeApply(c, ok)
  \/ \E c \in Callers, id \in Ids : KillRemove(c, id)
  \/ \E c \in Callers, ok \in BOOLEAN : KillSignal(c, ok)
  \/ \E c \in Callers : Count(c)
  \/ \E c \in Callers : KillAllLock(c) \/ KillAllReturn(c)
  \/ \E c \in Callers, e \in ptys, ok \in BOOLEAN : KillAllNext(c, e, ok)
  \/ \E c \in Callers : ForceExitLock(c) \/ ForceExitUnlock(c) \/ ForceExit(c)
  \/ \E c \in Callers, e \in ptys, ok \in BOOLEAN : ForceExitNext(c, e, ok)
  \/ \E h \in H, n \in 1..MaxOutput : ReaderRead(h, n)
  \/ \E h \in H, ok \in BOOLEAN : ReaderEmit(h, ok)
  \/ \E h \in H : ReaderEof(h) \/ ReaderErr(h)
  \/ \E h \in H, k \in Bursts : ChildOutput(h, k)
  \/ \E h \in H : ChildExit(h) \/ ChildInput(h)

Spec == Init /\ [][Next]_vars

\* ---- local sessions with a startup command ------------------------------
StartupNext ==
  \/ \E c \in Callers, id \in Ids, size \in SpawnSizes,
        command \in Commands, outcome \in SpawnFailures \cup {"ok"} :
       SpawnWith(c, id, size, command, outcome)
  \/ \E c \in Callers : SpawnInsert(c) \/ SpawnThread(c)
  \/ \E c \in Callers, id \in Ids, data \in Strings : WriteLookup(c, id, data)
  \/ \E c \in Callers : WriteAll(c) \/ WriteAllErr(c)
  \/ \E c \in Callers, ok \in BOOLEAN : WriteFlush(c, ok)
  \/ \E h \in H : ReaderEof(h)
  \/ \E h \in H : ChildExit(h) \/ ChildInput(h)
  \/ \E h \in H, status \in ExitStatuses : CommandEnds(h, status)

StartupSpec == Init /\ [][StartupNext]_vars

\* ---- remote sessions ------------------------------------------------------
RemoteNext ==
  \/ \E c \in Callers, id \in Ids, size \in SpawnSizes, session \in SessionNames :
       RemoteWith(c, id, size, session, None, "ok")
  \/ \E c \in Callers : RemoteInsert(c) \/ RemoteThread(c)
  \/ \E c \in Callers, id \in Ids : KillRemove(c, id)
  \/ \E c \in Callers, ok \in BOOLEAN : KillSignal(c, ok)
  \/ \E h \in H : ReaderEof(h)
  \/ \E h \in H : ChildExit(h) \/ SshConnect(h)
  \/ \E s \in remote : TmuxExit(s)

RemoteSpec == Init /\ [][RemoteNext]_vars

\* ---- remote sessions with a startup command -------------------------------
RemoteCommandNext ==
  \/ \E c \in Callers, id \in Ids, size \in SpawnSizes, session \in SessionNames,
        command \in RemoteCommands :
       RemoteWith(c, id, size, session, command, "ok")
  \/ \E c \in Callers : RemoteInsert(c) \/ RemoteThread(c)
  \/ \E h \in H : SshConnect(h)
  \/ \E s \in remote : TmuxExit(s)

RemoteCommandSpec == Init /\ [][RemoteCommandNext]_vars

\* ---- sessions of any size --------------------------------------------------
\* openpty and resize take the PtySize as it comes: the commands pass cols
\* and rows on unchecked and the terminal driver accepts a zero
SizeNext ==
  \/ \E c \in Callers, id \in Ids, size \in U16Sizes,
        outcome \in SpawnFailures \cup {"ok"} :
       \/ SpawnOpen(c, id, size, outcome)
       \/ RemoteOpen(c, id, size, outcome)
  \/ \E c \in Callers :
       \/ SpawnInsert(c)
       \/ SpawnThread(c)
       \/ RemoteInsert(c)
       \/ RemoteThread(c)
  \/ \E c \in Callers, id \in Ids, size \in U16Sizes : ResizeLookup(c, id, size)
  \/ \E c \in Callers, ok \in BOOLEAN : ResizeApply(c, ok)

SizeSpec == Init /\ [][SizeNext]_vars

\* ---- sessions that are killed ----------------------------------------------
\* the next step of the reader thread of pair h
ReaderStep(h) ==
  \/ \E n \in 1..MaxOutput : ReaderRead(h, n)
  \/ \E ok \in BOOLEAN : ReaderEmit(h, ok)
  \/ ReaderEof(h)

KillNext ==
  \/ \E c \in Callers, id \in Ids, size \in SpawnSizes,
        outcome \in SpawnFailures \cup {"ok"} : SpawnOpen(c, id, size, outcome)
  \/ \E c \in Callers : SpawnInsert(c) \/ SpawnThread(c)
  \/ \E c \in Callers, id \in Ids : KillRemove(c, id)
  \/ \E c \in Callers, ok \in BOOLEAN : KillSignal(c, ok)
  \/ \E h \in H, n \in 1..MaxOutput : ReaderRead(h, n)
  \/ \E h \in H, ok \in BOOLEAN : ReaderEmit(h, ok)
  \/ \E h \in H : ReaderEof(h) \/ ReaderErr(h)
  \/ \E h \in H, k \in Bursts : ChildOutput(h, k)
  \/ \E h \in H : ChildExit(h) \/ ChildKilled(h)

\* the caller threads and the reader threads make progress. Nothing obliges
\* a child to print, to exit on its own or to end when it is killed.
KillSpec ==
  /\ Init /\ [][KillNext]_vars
  /\ \A c \in Callers : WF_vars(SpawnInsert(c) \/ SpawnThread(c))
  /\ \A c \in Callers : WF_vars(\E ok \in BOOLEAN : KillSignal(c, ok))
  /\ \A h \in H : WF_vars(ReaderStep(h))

\* ---- scheduling ------------------------------------------------------------
\* the next step of a command that is under way; a write to a terminal
\* whose child is gone fails rather than waits
CallerStep(c) ==
  \/ SpawnInsert(c) \/ SpawnThread(c) \/ RemoteInsert(c) \/ RemoteThread(c)
  \/ WriteAll(c)
  \/ WriteAllErr(c) /\ child[call[c].h].st = "exited"
  \/ \E ok \in BOOLEAN : WriteFlush(c, ok) \/ ResizeApply(c, ok) \/ KillSignal(c, ok)
  \/ \E e \in ptys, ok \in BOOLEAN : KillAllNext(c, e, ok) \/ ForceExitNext(c, e, ok)
  \/ KillAllReturn(c) \/ ForceExitUnlock(c) \/ ForceExit(c)

\* a thread that can run does run: a command under way takes its next step
\* unless it waits for the registry lock or for room in a terminal's input.
\* Nothing obliges a child to read its input, to print or to exit.
ThreadsSpec == Spec /\ \A c \in Callers : WF_vars(CallerStep(c))

\* ---- the commands of lib.rs ----------------------------------------------------
\* lib.rs defines spawn_pty, write_pty, resize_pty and kill_pty once more, on a
\* PtyMap and a PtyHandle of its own (lib.rs 764-770), and hands these four
\* to the command handler (915-918). They are translated here from lib.rs,
\* on the same state: a step of one of them is a step of a caller in the
\* command of that name.

\* format!("{}; exec {} -l -i", command, shell)  (lib.rs 798)
LibStartupScript(command, shell) ==
  << command, ";", "exec", shell, "-l", "-i" >>

\* std::env::var("SHELL").unwrap_or_else(|_| "/bin/zsh".to_string())  (793)
LibShell == "/bin/zsh"

\* lib.rs 782-811: openpty, the shell's arguments, spawn_command,
\* try_clone_reader, take_writer, each with `?`
LibSpawnWith(c, id, size, command, outcome) ==
  /\ Ready(c)
  /\ LET script == IF command # None THEN LibStartupScript(command, LibShell)
                   ELSE <<>>
         h == nextH + 1
     IN  CASE outcome \in {"openpty", "spawn_command"} ->
                /\ Return(c, "spawn_pty", id, "Err")
                /\ UNCHANGED << nextH, handle, master, child >>
           [] outcome \in {"try_clone_reader", "take_writer"} ->
                /\ nextH < MaxHandles
                /\ NewChild(h, id, size, "dropped", script)
                /\ Return(c, "spawn_pty", id, "Err")
           [] outcome = "ok" ->
                /\ nextH < MaxHandles
                /\ NewChild(h, id, size, "caller", script)
                /\ Goto(c, "spawn_pty", "insert", id, h, <<>>, 0, size)
  /\ UNCHANGED << ptys, lock, writer, term, reader, events, lost, exited,
                  drained, remote, wt >>

\* lib.rs 813-816
LibSpawnInsert(c) ==
  /\ At(c, "spawn_pty", "insert")
  /\ lock = 0
  /\ Inserted(call[c].id, call[c].h)
  /\ Goto(c, "spawn_pty", "thread", call[c].id, call[c].h, <<>>, 0, call[c].size)
  /\ UNCHANGED << lock, nextH, master, writer, child, term, reader, events,
                  lost, exited, remote, wt >>

\* lib.rs 818-837
LibSpawnThread(c) ==
  /\ At(c, "spawn_pty", "thread")
  /\ reader' = [reader EXCEPT ![call[c].h].st = "read"]
  /\ Return(c, "spawn_pty", call[c].id, "Ok")
  /\ UNCHANGED << ptys, lock, nextH, handle, master, writer, child, term,
                  events, lost, exited, drained, remote, wt >>

\* lib.rs 842-843
LibWriteLookup(c, id, data) ==
  /\ Ready(c)
  /\ lock = 0
  /\ LET bytes == as_bytes(data)
     IN  IF \E e \in ptys : e[1] = id
         THEN /\ TotalIn + Len(bytes) <= MaxInput
              /\ lock' = c
              /\ Goto(c, "write_pty", IF bytes = <<>> THEN "flush" ELSE "write_all",
                      id, Get(ptys, id), bytes, 0, <<0, 0>>)
         ELSE /\ lock' = lock
              /\ Return(c, "write_pty", id, "Ok")
  /\ UNCHANGED << ptys, nextH, handle, master, writer, child, term, reader,
                  events, lost, exited, drained, remote, wt >>

\* lib.rs 844-846, a write() of write_all that succeeds
LibWriteAll(c) ==
  /\ At(c, "write_pty", "write_all")
  /\ Pending(call[c].h) < PtyCapacity
  /\ LET n == call[c].n + 1
     IN  /\ writer' = [writer EXCEPT ![call[c].h].bytes = Append(@, call[c].data[n])]
         /\ Goto(c, "write_pty",
                 IF n = Len(call[c].data) THEN "flush" ELSE "write_all",
                 call[c].id, call[c].h, call[c].data, n, <<0, 0>>)
  /\ UNCHANGED << ptys, lock, nextH, handle, master, child, term, reader,
                  events, lost, exited, drained, remote, wt >>

\* lib.rs 846, the `?` of write_all
LibWriteAllErr(c) ==
  /\ At(c, "write_pty", "write_all")
  /\ lock' = 0
  /\ Return(c, "write_pty", call[c].id, "Err")
  /\ UNCHANGED << ptys, nextH, handle, master, writer, child, term, reader,
                  events, lost, exited, drained, remote, wt >>

\* lib.rs 847-849
LibWriteFlush(c, ok) ==
  /\ At(c, "write_pty", "flush")
  /\ lock' = 0
  /\ IF ok
     THEN /\ writer' = [writer EXCEPT ![call[c].h].flushed = Len(writer[call[c].h].bytes)]
          /\ Return(c, "write_pty", call[c].id, "Ok")
     ELSE /\ writer' = writer
          /\ Return(c, "write_pty", call[c].id, "Err")
  /\ UNCHANGED << ptys, nextH, handle, master, child, term, reader,
                  events, lost, exited, drained, remote, wt >>

\* lib.rs 859-860
LibResizeLookup(c, id, size) ==
  /\ Ready(c)
  /\ lock = 0
  /\ IF \E e \in ptys : e[1] = id
     THEN /\ lock' = c
          /\ Goto(c, "resize_pty", "resize", id, Get(ptys, id), <<>>, 0, size)
     ELSE /\ lock' = lock
          /\ Return(c, "resize_pty", id, "Ok")
  /\ UNCHANGED << ptys, nextH, handle, master, writer, child, term, reader,
                  events, lost, exited, drained, remote, wt >>

\* lib.rs 861-870
LibResizeApply(c, ok) ==
  /\ At(c, "resize_pty", "resize")
  /\ lock' = 0
  /\ IF ok
     THEN /\ master' = [master EXCEPT ![call[c].h] = call[c].size]
          /\ Return(c, "resize_pty", call[c].id, "Ok")
     ELSE /\ master' = master
          /\ Return(c, "resize_pty", call[c].id, "Err")
  /\ UNCHANGED << ptys, nextH, handle, writer, child, term, reader,
                  events, lost, exited, drained, remote, wt >>

LibKillRemoveKeepsEntry(c, id) ==
  /\ Ready(c)
  /\ lock = 0
  /\ IF \E e \in ptys : e[1] = id
     THEN /\ lock' = c
          /\ Goto(c, "kill_pty", "kill", id, Get(ptys, id), <<>>, 0, <<0, 0>>)
     ELSE /\ lock' = lock
          /\ Return(c, "kill_pty", id, "Ok")
  /\ UNCHANGED << ptys, handle, nextH, master, writer, child, term, reader,
                  events, lost, exited, drained, remote, wt >>

\* lib.rs 875-876
LibKillRemove(c, id) ==
  /\ Ready(c)
  /\ lock = 0
  /\ IF \E e \in ptys : e[1] = id
     THEN /\ lock' = c
          /\ ptys' = HashMapRemove(ptys, id)
          /\ handle' = [handle EXCEPT ![Get(ptys, id)].own = "caller"]
          /\ Goto(c, "kill_pty", "kill", id, Get(ptys, id), <<>>, 0, <<0, 0>>)
     ELSE /\ UNCHANGED << lock, ptys, handle >>
          /\ Return(c, "kill_pty", id, "Ok")
  /\ UNCHANGED << nextH, master, writer, child, term, reader,
                  events, lost, exited, drained, remote, wt >>

\* lib.rs 877-879
LibKillSignal(c, ok) ==
  /\ At(c, "kill_pty", "kill")
  /\ Killed(call[c].h, ok)
  /\ lock' = 0
  /\ Return(c, "kill_pty", call[c].id, "Ok")
  /\ UNCHANGED << ptys, nextH, master, writer, term, reader,
                  events, lost, exited, drained, remote, wt >>

\* the four commands, each in its two versions, beside children that exit
\* and that read their input
LibNext ==
  \/ \E c \in Callers, id \in Ids, size \in SpawnSizes,
        command \in {None} \cup Commands, outcome \in SpawnFailures \cup {"ok"} :
       \/ SpawnWith(c, id, size, command, outcome)
       \/ LibSpawnWith(c, id, size, command, outcome)
  \/ \E c \in Callers :
       \/ SpawnInsert(c)
       \/ LibSpawnInsert(c)
       \/ SpawnThread(c)
       \/ LibSpawnThread(c)
  \/ \E c \in Callers, id \in Ids, data \in Strings :
       WriteLookup(c, id, data) \/ LibWriteLookup(c, id, data)
  \/ \E c \in Callers :
       \/ WriteAll(c)
       \/ LibWriteAll(c)
       \/ WriteAllErr(c)
       \/ LibWriteAllErr(c)
  \/ \E c \in Callers, ok \in BOOLEAN : WriteFlush(c, ok) \/ LibWriteFlush(c, ok)
  \/ \E c \in Callers, id \in Ids, size \in Sizes :
       ResizeLookup(c, id, size) \/ LibResizeLookup(c, id, size)
  \/ \E c \in Callers, ok \in BOOLEAN : ResizeApply(c, ok) \/ LibResizeApply(c, ok)
  \/ \E c \in Callers, id \in Ids : KillRemove(c, id) \/ LibKillRemove(c, id)
  \/ \E c \in Callers, ok \in BOOLEAN : KillSignal(c, ok) \/ LibKillSignal(c, ok)
  \/ \E h \in H : ChildExit(h) \/ ChildInput(h)

LibSpec == Init /\ [][LibNext]_vars

\* ---- create_worktree --------------------------------------------------------
ptyVars == << ptys, lock, call, reply, spent, nextH, handle, master, writer,
              child, term, reader, events, lost, exited, drained, remote >>

\* the call returns
WtReturn(result, info) ==
  wt' = [wt EXCEPT !.phase = "done", !.result = result, !.info = info]

\* `continue`: the turn of the loop is over
WtContinue ==
  wt' = [wt EXCEPT !.phase = "generate", !.attempt = @ + 1]

\* ensure_git_repo, file_name, parent, create_dir_all, get_current_branch:
\* each returns its error with `?`
WtSetup(ok) ==
  /\ wt.phase = "call"
  /\ IF ok THEN wt' = [wt EXCEPT !.phase = "generate"]
     ELSE WtReturn("Err", IoError)
  /\ UNCHANGED ptyVars

\* let suffix = generate_suffix(..); let branch = ..; let worktree_path = ..;
WtGenerate(suffix) ==
  /\ wt.phase = "generate"
  /\ wt.attempt < Attempts
  /\ wt' = [wt EXCEPT !.phase = "path", !.suffix = suffix, !.tried = @ + 1]
  /\ UNCHANGED ptyVars

\* the loop is over: Err("Failed to generate unique worktree path")
WtExhausted ==
  /\ wt.phase = "generate"
  /\ wt.attempt = Attempts
  /\ WtReturn("Err", NotUnique)
  /\ UNCHANGED ptyVars

WtPathUnchecked ==
  /\ wt.phase = "path"
  /\ wt' = [wt EXCEPT !.phase = "branch"]
  /\ UNCHANGED ptyVars

\* if worktree_path.exists() { continue; }
WtPathExists ==
  /\ wt.phase = "path"
  /\ IF wt.suffix \in wt.paths THEN WtContinue
     ELSE wt' = [wt EXCEPT !.phase = "branch"]
  /\ UNCHANGED ptyVars

\* if branch_exists(&project_path, &branch)? { continue; }
WtBranchExists(ok) ==
  /\ wt.phase = "branch"
  /\ IF ~ok THEN WtReturn("Err", IoError)
     ELSE IF wt.suffix \in wt.branches THEN WtContinue
     ELSE wt' = [wt EXCEPT !.phase = "add"]
  /\ UNCHANGED ptyVars

\* git worktree add -b branch worktree_path base_ref: "error" is a path that
\* is not UTF-8 or a git that cannot be started, "failed" a git that ran and
\* ended with a failure, "ok" one that made the branch and the worktree
WtAdd(outcome) ==
  /\ wt.phase = "add"
  /\ CASE outcome = "error" -> WtReturn("Err", IoError)
       [] outcome = "failed" ->
            wt' = [wt EXCEPT !.phase = "done", !.result = "Err",
                             !.info = AddFailed, !.adds = @ + 1]
       [] outcome = "ok" ->
            wt' = [wt EXCEPT !.phase = "copy", !.adds = @ + 1,
                             !.paths = @ \cup {wt.suffix},
                             !.branches = @ \cup {wt.suffix}]
  /\ UNCHANGED ptyVars

\* copy_preserved_files(..)?; return Ok(WorktreeInfo { path, branch })
WtCopy(ok) ==
  /\ wt.phase = "copy"
  /\ IF ok THEN WtReturn("Ok", wt.suffix) ELSE WtReturn("Err", IoError)
  /\ UNCHANGED ptyVars

\* a call of create_worktree, in a repository where any of the candidates
\* may have its worktree path or its branch already
WorktreeInit ==
  /\ PtyInit
  /\ \E paths \in SUBSET Suffixes, branches \in SUBSET Suffixes :
       wt = [NoWorktree EXCEPT !.phase = "call", !.paths = paths,
                               !.branches = branches]

WorktreeNext ==
  \/ \E ok \in BOOLEAN : WtSetup(ok)
  \/ \E suffix \in Suffixes : WtGenerate(suffix)
  \/ WtExhausted
  \/ WtPathExists
  \/ \E ok \in BOOLEAN : WtBranchExists(ok)
  \/ \E outcome \in {"ok", "failed", "error"} : WtAdd(outcome)
  \/ \E ok \in BOOLEAN : WtCopy(ok)

WorktreeSpec == WorktreeInit /\ [][WorktreeNext]_vars

\* ==== the claims ============================================================

\* ---- C1 --------------------------------------------------------------------
\* a step in which caller c issues write, resize or kill with id
LookupStep(c, id) ==
  \/ \E data \in Strings : WriteLookup(c, id, data)
  \/ \E size \in Sizes : ResizeLookup(c, id, size)
  \/ KillRemove(c, id)

\* C1: write, resize and kill on an id that is not a key of the registry
\* return Ok at once and leave the registry, every writer, every terminal's
\* size and every child (no kill() call) as they were.
C1_UnknownIdIsNoOp ==
  [][\A c \in Callers, id \in Ids :
       (id \notin Keys(ptys) /\ LookupStep(c, id)) =>
         /\ reply'.val = "Ok"
         /\ reply'.id = id
         /\ call'[c] = Idle
         /\ UNCHANGED << ptys, lock, handle, writer, master, child >>]_vars

\* a write on an absent id has just returned Ok, beside a live session
C1_Witness ==
  /\ reply.op = "write_pty"
  /\ reply.val = "Ok"
  /\ reply.id \notin Keys(ptys)
  /\ ptys # {}
  /\ \A h \in H : writer[h].bytes = <<>>

\* ---- C2 --------------------------------------------------------------------
\* C2: once kill_all_ptys has returned and no spawn has inserted since, the
\* registry is empty and get_active_pty_count returns 0.
C2_EmptyAfterKillAll ==
  drained =>
    /\ ptys = {}
    /\ reply.op = "get_active_pty_count" => reply.val = 0

\* count() has just returned after a kill_all that drained a session
C2_Witness ==
  /\ drained
  /\ reply.op = "get_active_pty_count"
  /\ \E h \in H : handle[h].own = "dropped" /\ child[h].kills = 1

\* ---- C3 --------------------------------------------------------------------
UniqueKeys == \A e, f \in ptys : e[1] = f[1] => e = f

InsertStep(c) == SpawnInsert(c) \/ RemoteInsert(c)

\* C3: the registry holds at most one handle per id, and an insert adds one
\* to count() when the id was absent and nothing when it was present, so two
\* spawns with one id leave exactly one entry for it.
C3_OneHandlePerId ==
  [][/\ UniqueKeys
     /\ UniqueKeys'
     /\ \A c \in Callers : InsertStep(c) =>
          /\ Cardinality({e \in ptys' : e[1] = call[c].id}) = 1
          /\ Cardinality(ptys') =
               Cardinality(ptys) + (IF call[c].id \in Keys(ptys) THEN 0 ELSE 1)]_vars

\* two spawns with one id have both inserted: one entry, the first replaced
C3_Witness ==
  \E h1, h2 \in H :
    /\ h1 # h2
    /\ handle[h1].id = handle[h2].id
    /\ handle[h1].own = "dropped" /\ child[h1].kills = 0 /\ reader[h1].st # "none"
    /\ handle[h2].own = "map"
    /\ Cardinality(ptys) = 1

\* ---- C4 --------------------------------------------------------------------
\* a step in which a spawn of caller c fails
FailedSpawnStep(c, id) ==
  \E size \in SpawnSizes, outcome \in SpawnFailures :
    SpawnOpen(c, id, size, outcome) \/ RemoteOpen(c, id, size, outcome)

\* C4: a spawn or spawn_remote that fails returns Err, leaves the registry
\* as it was (an entry under the same id included) and starts no reader
\* thread.
C4_FailedSpawnRegistersNothing ==
  [][\A c \in Callers, id \in Ids : FailedSpawnStep(c, id) =>
       /\ reply'.val = "Err"
       /\ reply'.id = id
       /\ call'[c] = Idle
       /\ UNCHANGED << ptys, lock, reader >>
       /\ \A h \in H : handle'[h].own = "map" <=> handle[h].own = "map"]_vars

\* a spawn has just failed before any child of its own was started, while
\* its id is registered to an earlier session whose reader thread runs
C4_Witness ==
  /\ reply.op \in {"spawn_pty", "spawn_remote_pty"}
  /\ reply.val = "Err"
  /\ nextH = 1
  /\ <<reply.id, 1>> \in ptys
  /\ reader[1].st = "read"

\* ---- C5 --------------------------------------------------------------------
\* every spawn so far has returned Ok, and no command still holds a pair:
\* each pair has left the registry by an overwrite, a kill or a drain
AllSpawnsSettled ==
  \A h \in 1..nextH : reader[h].st # "none" /\ handle[h].own = "dropped"

\* C5, on the runs most in its favour (no spawn failed or slipped in behind
\* the drain, no kill was under way at the exit): once force_exit has ended
\* the process, every child that still runs has had kill() called on it.
C5_NoOrphanAfterForceExit ==
  (exited /\ AllSpawnsSettled) =>
    \A h \in H : child[h].st = "running" => child[h].kills > 0

\* ---- C6 --------------------------------------------------------------------
\* the caller's next step is a call on a writer, a terminal or a child
IOStep(c) ==
  \/ call[c].step \in {"write_all", "flush", "resize", "kill"}
  \/ call[c].step = "drain" /\ ptys # {}

C7_EventsInReadOrder ==
  \A h \in H : \A i, j \in 1..Len(events[h]) :
    i < j => events[h][i].off < events[h][j].off

\* a session has published two chunks and has been killed
C7_Witness ==
  \E h \in H :
    /\ Len(events[h]) >= 2
    /\ child[h].kills = 1

\* ---- C8 --------------------------------------------------------------------
\* what the consumer decodes from the events of pair h, in order
Decoded(h) == [i \in 1..Len(events[h]) |-> Base64Decode(events[h][i].payload)]

C9_KillRemovesOnlyItsEntry ==
  [][/\ \A c \in Callers, id \in Ids :
          (id \in Keys(ptys) /\ KillRemove(c, id)) =>
            /\ ptys' = ptys \ {<<id, Get(ptys, id)>>}
            /\ call'[c].h = Get(ptys, id)
            /\ UNCHANGED << child, reader >>
     /\ \A c \in Callers, ok \in BOOLEAN :
          KillSignal(c, ok) =>
            /\ child'[call[c].h].kills = child[call[c].h].kills + 1
            /\ child'[call[c].h].st = child[call[c].h].st
            /\ \A g \in H \ {call[c].h} : child'[g] = child[g]
            /\ reply' = [op |-> "kill_pty", id |-> call[c].id, val |-> "Ok"]
            /\ call[c].id \notin Keys(ptys')
            /\ UNCHANGED << ptys, reader >>
     /\ \A id \in Ids :
          (id \notin Keys(ptys) /\ id \in Keys(ptys')) =>
            \E c \in Callers : InsertStep(c) /\ call[c].id = id]_vars

\* kill has just returned: its child still runs, its reader thread still
\* reads, and the other session is still registered
C9_Witness ==
  /\ reply.op = "kill_pty"
  /\ reply.val = "Ok"
  /\ reply.id \notin Keys(ptys)
  /\ ptys # {}
  /\ \E h \in H :
       /\ handle[h].id = reply.id /\ handle[h].own = "dropped"
       /\ child[h].kills = 1 /\ child[h].st = "running"
       /\ reader[h].st = "read"

\* ---- C10 -------------------------------------------------------------------
\* C10: a write on a registered id hands data.as_bytes() to the writer of
\* the pair registered under the id; when it returns Ok the writer's input
\* ends with the whole payload, in order and unbroken, and is flushed; when
\* write_all or flush fails it returns Err; either way the pair stays
\* registered.
C10_WriteDeliversAll ==
  [][\A c \in Callers :
       /\ \A id \in Ids, data \in Strings :
            (id \in Keys(ptys) /\ WriteLookup(c, id, data)) =>
              /\ call'[c].data = as_bytes(data)
              /\ call'[c].h = Get(ptys, id)
       /\ WriteFlush(c, TRUE) =>
            LET h == call[c].h
                d == call[c].data
                w == writer'[h].bytes
            IN  /\ reply' = [op |-> "write_pty", id |-> call[c].id, val |-> "Ok"]
                /\ Len(w) >= Len(d)
                /\ SubSeq(w, Len(w) - Len(d) + 1, Len(w)) = d
                /\ writer'[h].flushed = Len(w)
                /\ <<call[c].id, h>> \in ptys'
       /\ (WriteFlush(c, FALSE) \/ WriteAllErr(c)) =>
            /\ reply' = [op |-> "write_pty", id |-> call[c].id, val |-> "Err"]
            /\ ptys' = ptys
            /\ <<call[c].id, call[c].h>> \in ptys']_vars

\* a second write has just returned Ok: the input holds both payloads
C10_Witness ==
  /\ reply.op = "write_pty"
  /\ reply.val = "Ok"
  /\ \E h \in H :
       /\ <<reply.id, h>> \in ptys
       /\ Len(writer[h].bytes) = 4
       /\ writer[h].flushed = 4

\* ---- C11 -------------------------------------------------------------------
\* a step in which a spawn starts the child of pair h on a terminal of `size`
OpenStep(h, size) ==
  /\ nextH' = h
  /\ nextH = h - 1
  /\ \E c \in Callers, id \in Ids, outcome \in SpawnFailures \cup {"ok"} :
       SpawnOpen(c, id, size, outcome) \/ RemoteOpen(c, id, size, outcome)

\* C11: a resize on a registered id works on the pair registered under it;
\* when it succeeds that terminal has exactly the size asked for and no
\* other terminal changes, when it fails no terminal changes; a terminal's
\* size changes in no other step, but is set to the spawn's size when its
\* pair is opened.
C11_ResizeSetsExactSize ==
  [][/\ \A c \in Callers, id \in Ids, size \in Sizes :
          (id \in Keys(ptys) /\ ResizeLookup(c, id, size)) =>
            /\ call'[c].h = Get(ptys, id)
            /\ call'[c].size = size
            /\ UNCHANGED master
     /\ \A c \in Callers :
          /\ ResizeApply(c, TRUE) =>
               /\ master'[call[c].h] = call[c].size
               /\ \A g \in H \ {call[c].h} : master'[g] = master[g]
               /\ <<call[c].id, call[c].h>> \in ptys
          /\ ResizeApply(c, FALSE) => UNCHANGED master
     /\ \A h \in H : master'[h] # master[h] =>
          \/ \E c \in Callers : ResizeApply(c, TRUE) /\ call[c].h = h
          \/ \E size \in SpawnSizes : OpenStep(h, size) /\ master'[h] = size]_vars

\* a resize to (120, 40) has just returned Ok while the other registered
\* session keeps its spawn size
C11_Witness ==
  /\ reply.op = "resize_pty"
  /\ reply.val = "Ok"
  /\ \E h1, h2 \in H :
       /\ <<reply.id, h1>> \in ptys /\ master[h1] = <<120, 40>>
       /\ h2 # h1 /\ handle[h2].own = "map" /\ master[h2] = <<80, 24>>

\* ---- C12 -------------------------------------------------------------------
\* C12 as stated: what count() has just returned is the number of registered
\* sessions whose child is still alive.
C12_CountsLiveChildren ==
  reply.op = "get_active_pty_count" =>
    reply.val = Cardinality({e \in ptys : child[e[2]].st = "running"})

\* C12, amended: the registry is empty at the start, and count() returns
\* the number of entries of the registry (one per registered id, each a pair
\* the registry holds), whether their children are alive or not, and
\* changes nothing.
C12_CountsRegistryEntries ==
  /\ ptys = {}
  /\ [][\A c \in Callers : Count(c) =>
          /\ reply'.op = "get_active_pty_count"
          /\ reply'.val = Cardinality(Keys(ptys))
          /\ reply'.val = Cardinality({h \in H : handle[h].own = "map"})
          /\ call'[c] = Idle
          /\ UNCHANGED << ptys, lock, handle, master, writer, child, term,
                          reader, events, lost, exited >>]_vars

\* count() has just returned 1 for a registry whose only child has exited
C12_Witness ==
  /\ reply.op = "get_active_pty_count"
  /\ reply.val = 1
  /\ \E e \in ptys : child[e[2]].st = "exited"

\* ---- C15 -------------------------------------------------------------------
\* C15: when a spawn inserts under an id that is registered, the pair that
\* was registered leaves the registry and is dropped, but its child gets no
\* kill() and runs on, its terminal keeps its output and its reader thread
\* stays where it was; what that thread publishes later still carries the
\* same id.
C15_OverwriteTearsNothingDown ==
  [][/\ \A c \in Callers :
          (InsertStep(c) /\ call[c].id \in Keys(ptys)) =>
            LET old == Get(ptys, call[c].id)
            IN  /\ old # call[c].h
                /\ <<call[c].id, old>> \notin ptys'
                /\ handle'[old] = [id |-> call[c].id, own |-> "dropped"]
                /\ child'[old] = child[old]
                /\ reader'[old] = reader[old]
                /\ term'[old] = term[old]
                /\ events'[old] = events[old]
     /\ \A h \in H :
          (handle[h].own = "dropped" /\ ReaderEmit(h, TRUE)) =>
            /\ Len(events'[h]) = Len(events[h]) + 1
            /\ events'[h][Len(events'[h])].id = handle[h].id]_vars

\* the reader thread of an overwritten pair holds a chunk it is about to
\* publish, while the id is registered to the newer pair, whose own thread
\* runs; the overwritten child was never killed
C15_Witness ==
  \E h1, h2 \in H :
    /\ handle[h1].own = "dropped" /\ child[h1].kills = 0
    /\ child[h1].st = "running"
    /\ reader[h1].st = "emit" /\ reader[h1].pos = Len(reader[h1].buf)
    /\ <<handle[h1].id, h2>> \in ptys
    /\ reader[h2].st = "read"

\* ---- C16 -------------------------------------------------------------------
\* a step of kill, kill_all or force_exit that takes the entry of id out
RemovalStep(id) ==
  \/ \E c \in Callers : KillRemove(c, id)
  \/ \E c \in Callers, e \in ptys, ok \in BOOLEAN :
       e[1] = id /\ (KillAllNext(c, e, ok) \/ ForceExitNext(c, e, ok))

\* C16: an id leaves the registry only in a step of kill, kill_all or
\* force_exit; the exit of a child and the end of a reader thread (on
\* end-of-stream or on a read error) leave the registry as it is.
C16_OnlyKillRemoves ==
  [][/\ \A id \in Ids :
          (id \in Keys(ptys) /\ id \notin Keys(ptys')) => RemovalStep(id)
     /\ \A h \in H :
          (ChildExit(h) \/ ReaderEof(h) \/ ReaderErr(h)) => UNCHANGED ptys]_vars

\* a child has exited, its reader thread has seen end-of-stream and stopped,
\* and count() has just returned 1: the entry is still there
C16_Witness ==
  /\ reply.op = "get_active_pty_count"
  /\ reply.val = 1
  /\ \E e \in ptys :
       /\ child[e[2]].st = "exited" /\ child[e[2]].kills = 0
       /\ reader[e[2]].st = "stopped"

\* ---- C17 -------------------------------------------------------------------
\* C17 as stated, its last part: a reader thread has stopped only if its
\* session was taken out of the registry by a kill request.
C17_TerminatedOnlyAfterKill ==
  \A h \in H : reader[h].st = "stopped" =>
    handle[h].own = "dropped" /\ child[h].kills > 0

\* how far a pair has come: 1 constructed by a spawn that has not inserted
\* it, 2 registered, 3 taken out by a kill that has not yet called kill(),
\* 4 dropped
OwnRank(h) ==
  CASE handle[h].own = "none" -> 0
    [] handle[h].own = "map" -> 2
    [] handle[h].own = "dropped" -> 4
    [] OTHER ->
         IF \E c \in Callers : call[c].h = h /\ call[c].step = "insert"
         THEN 1 ELSE 3

\* how far its reader thread has come: not started, active, stopped
ReaderRank(h) ==
  CASE reader[h].st = "none" -> 0
    [] reader[h].st = "stopped" -> 2
    [] OTHER -> 1

\* C17, amended: a session moves only forwards through constructed,
\* registered, removed and dropped, and is registered exactly while the
\* registry holds it; its reader thread moves only forwards through not
\* started, active and stopped, and is started only once the session has
\* been registered. The two are otherwise independent: a thread may stop
\* while its session is registered and may run on after its removal.
C17_ForwardOnly ==
  [][\A h \in H :
       /\ OwnRank(h)' >= OwnRank(h)
       /\ ReaderRank(h)' >= ReaderRank(h)
       /\ ReaderRank(h)' >= 1 => OwnRank(h)' >= 2
       /\ OwnRank(h)' = 2 <=> <<handle'[h].id, h>> \in ptys']_vars

\* a reader thread has stopped on a read error while its session is
\* registered and its child runs, no kill having been asked for
C17_Witness ==
  \E e \in ptys :
    /\ reader[e[2]].st = "stopped"
    /\ child[e[2]].st = "running" /\ child[e[2]].kills = 0

ThreadStep(c) == SpawnThread(c) \/ RemoteThread(c)

\* C20: a spawn inserts a pair whose child has been started and whose
\* reader thread has not, with nothing published for it; it starts the
\* reader thread of a pair only after it has inserted it; a reader thread
\* is started by that step alone; and a spawn returns Ok by that step alone.
C20_ChildInsertReaderInOrder ==
  [][/\ \A c \in Callers : InsertStep(c) =>
          /\ child[call[c].h].st # "none"
          /\ reader[call[c].h].st = "none"
          /\ events[call[c].h] = <<>>
          /\ <<call[c].id, call[c].h>> \in ptys'
          /\ reply' = NoReply
     /\ \A c \in Callers : ThreadStep(c) =>
          /\ OwnRank(call[c].h) >= 2
          /\ reader[call[c].h].st = "none"
          /\ reader'[call[c].h].st = "read"
          /\ reply'.val = "Ok"
     /\ \A h \in H : (reader[h].st = "none" /\ reader'[h].st # "none") =>
          \E c \in Callers : ThreadStep(c) /\ call[c].h = h
     /\ (reply'.op \in {"spawn_pty", "spawn_remote_pty"} /\ reply'.val = "Ok") =>
          \E c \in Callers : ThreadStep(c)]_vars

\* a spawn has inserted its pair and not yet started the reader thread,
\* while the child has already printed: nothing is read or published yet
C20_Witness ==
  \E c \in Callers :
    /\ call[c].step = "thread"
    /\ <<call[c].id, call[c].h>> \in ptys
    /\ reader[call[c].h].st = "none"
    /\ term[call[c].h] # <<>>
    /\ events[call[c].h] = <<>>

\* ---- C19 -------------------------------------------------------------------
\* caller c is in a command other than force_exit
UnderWay(c) == call[c].step # "idle" /\ call[c].op # "force_exit"

\* the command of caller c has returned, or the process has ended
Returned(c) == call[c].step = "idle" \/ exited

\* a write waits for room in the input of the terminal of pair h
WriteWaits(h) ==
  \E d \in Callers :
    /\ call[d].op = "write_pty" /\ call[d].step = "write_all"
    /\ call[d].h = h
    /\ Pending(h) >= PtyCapacity

ChildrenConsume == \A h \in H : WF_vars(ChildInput(h))

C13_SameNameSameSession ==
  [][\A h \in H : \A s \in remote :
       (s.by # h /\ child[s.by].prog = child[h].prog /\ SshConnect(h)) =>
         /\ child'[h].st = "running"
         /\ child'[h].att = s.by
         /\ remote' = remote]_vars

\* the second spawn_remote is in the session the first one created, and the
\* first local session was killed and dropped in between
C13_Witness ==
  \E h1, h2 \in H :
    /\ h1 < h2
    /\ child[h2].att = h1
    /\ child[h2].st = "running"
    /\ \E s \in remote : s.by = h1
    /\ child[h1].kills > 0
    /\ handle[h1].own = "dropped"
\* ---- C21 -------------------------------------------------------------------
\* C21: an emit of a reader thread, the one of a session that kill has
\* taken out and dropped included, leaves the registry, the lock and every
\* command under way as they were and returns nothing to any caller; a
\* reader thread that has stopped stays stopped and publishes nothing more.
C21_TrailingEventChangesNothing ==
  [][\A h \in H :
       /\ (\E ok \in BOOLEAN : ReaderEmit(h, ok)) =>
            /\ UNCHANGED << ptys, lock, call, handle, master, writer, child >>
            /\ reply' = NoReply
       /\ reader[h].st = "stopped" =>
            /\ reader'[h] = reader[h]
            /\ events'[h] = events[h]]_vars

\* kill has returned for a session, an event of it was published while the
\* pair was already dropped, and its reader thread has since stopped
C21_Witness ==
  \E h \in H :
    /\ child[h].kills > 0
    /\ handle[h].own = "dropped"
    /\ \A c \in Callers : call[c].step = "idle"
    /\ \E i \in 1..Len(events[h]) : events[h][i].held = "dropped"
    /\ reader[h].st = "stopped"
\* ---- C22 -------------------------------------------------------------------
\* every child ends once kill() has been called on it
ChildrenHonourKill == \A h \in H : WF_vars(ChildKilled(h))

\* C22: kill() on a child says nothing to the reader thread of its pair, and
\* when the child ends on the kill() the reader thread, if it runs, comes to
\* read the end of the stream (or an error) and stops.
C22_KillLeadsToReaderExit ==
  /\ [][\A c \in Callers :
          ((\E id \in Ids : KillRemove(c, id)) \/ (\E ok \in BOOLEAN : KillSignal(c, ok)))
            => reader' = reader]_vars
  /\ ChildrenHonourKill =>
       \A h \in H :
         (child[h].kills > 0 /\ reader[h].st \in {"read", "emit"})
           ~> (reader[h].st = "stopped")

\* one session was spawned and killed, nothing else happened to it, and its
\* reader thread has stopped at the end of the stream
C22_Witness ==
  /\ nextH = 1
  /\ spent = 2
  /\ child[1].kills = 1
  /\ child[1].st = "exited"
  /\ handle[1].own = "dropped"
  /\ reader[1].st = "stopped"
\* ---- C23 -------------------------------------------------------------------
\* the reader thread of pair h reads the end of the stream or an error
ReaderBreak(h) == ReaderEof(h) \/ ReaderErr(h)

\* C23: on the first end of stream or read error the reader thread stops,
\* for good and with nothing published from then on; the step returns
\* nothing to any caller and leaves the registry, the lock, every command
\* under way and every pair as they were.
C23_ReadErrorStaysInTheLoop ==
  [][\A h \in H :
       /\ ReaderBreak(h) =>
            /\ reader'[h].st = "stopped"
            /\ reply' = NoReply
            /\ UNCHANGED << ptys, lock, call, handle, master, writer, child,
                            events, lost >>
       /\ reader[h].st = "stopped" =>
            /\ reader'[h].st = "stopped"
            /\ Len(events'[h]) = Len(events[h])]_vars

\* the reader thread of a registered session has stopped on a read error
\* (its child still runs), and a write to the session has then returned Ok
C23_Witness ==
  \E h \in H :
    /\ reader[h].st = "stopped"
    /\ child[h].st = "running"
    /\ <<reply.id, h>> \in ptys
    /\ reply.op = "write_pty"
    /\ reply.val = "Ok"
    /\ writer[h].flushed > 0
\* ---- C24 -------------------------------------------------------------------
\* a step in which caller d looks into the registry or changes it
RegistryStep(d) ==
  \/ InsertStep(d)
  \/ \E id \in Ids : LookupStep(d, id)
  \/ Count(d) \/ KillAllLock(d) \/ ForceExitLock(d)

\* C24: from its lock to its return kill_all holds the registry lock, no
\* other command is inside the registry or enters it, nothing but the drain
\* changes the registry or calls kill(); each turn of the drain takes one
\* entry out and calls kill() on its child, once, and kill_all returns when
\* no entry is left.
C24_KillAllDrainsUnderLock ==
  [][\A c \in Callers :
       (call[c].op = "kill_all_ptys" /\ call[c].step = "drain") =>
         /\ lock = c
         /\ \A d \in Callers \ {c} :
              /\ call[d].step \notin {"write_all", "flush", "resize", "kill", "drain"}
              /\ ~RegistryStep(d)
         /\ \A e \in ptys :
              (\E ok \in BOOLEAN : KillAllNext(c, e, ok)) =>
                /\ ptys' = ptys \ {e}
                /\ child[e[2]].kills = 0
                /\ child'[e[2]].kills = 1
                /\ handle'[e[2]].own = "dropped"
                /\ \A x \in H \ {e[2]} : child'[x] = child[x]
         /\ KillAllReturn(c) => ptys = {} /\ lock' = 0
         /\ (ptys' # ptys \/ \E x \in H : child'[x].kills # child[x].kills) =>
              \E e \in ptys, ok \in BOOLEAN : KillAllNext(c, e, ok)]_vars

\* kill_all has drained the registry and is about to return, while a spawn
\* that started its child before waits for the lock to insert
C24_Witness ==
  \E c, d \in Callers :
    /\ call[c].op = "kill_all_ptys" /\ call[c].step = "drain"
    /\ ptys = {}
    /\ \E h \in H : handle[h].own = "dropped" /\ child[h].kills = 1
    /\ call[d].op = "spawn_pty" /\ call[d].step = "insert"
\* ---- C25 -------------------------------------------------------------------
\* C25: force_exit never returns (its caller never becomes free and no
\* reply carries its name); it comes to std::process::exit only from a
\* drain that has emptied the registry under the lock, each turn of that
\* drain takes an entry out and calls kill() on its child, and the process
\* ends only in the exit step of a force_exit.
C25_ExitOnlyAfterDrain ==
  [][/\ reply'.op # "force_exit"
     /\ \A c \in Callers :
          /\ call[c].op = "force_exit" => call'[c].op = "force_exit"
          /\ (call'[c].step = "exit" /\ call[c].step # "exit") =>
               /\ call[c].op = "force_exit" /\ call[c].step = "drain"
               /\ lock = c
               /\ ptys = {}
          /\ \A e \in ptys :
               (\E ok \in BOOLEAN : ForceExitNext(c, e, ok)) =>
                 /\ lock = c
                 /\ ptys' = ptys \ {e}
                 /\ child'[e[2]].kills = child[e[2]].kills + 1
                 /\ handle'[e[2]].own = "dropped"
     /\ (exited' /\ ~exited) => \E c \in Callers : ForceExit(c)]_vars

\* force_exit has ended the process after a drain of two sessions, both
\* dropped with kill() called on their children
C25_Witness ==
  /\ exited
  /\ ptys = {}
  /\ \A h \in H : handle[h].own = "dropped" /\ child[h].kills = 1
  /\ \E c \in Callers : call[c].op = "force_exit" /\ call[c].step = "exit"
\* ---- C26 -------------------------------------------------------------------
\* the startup command, as a list of commands, that the spawn_remote of pair
\* h asked for
AskedToRun(h) ==
  LET cmd == RemoteRun(child[h].prog).opts.cmd
  IN  IF cmd = <<>> THEN <<>> ELSE << cmd >>

SpawnOps == {"spawn_pty", "spawn_remote_pty"}

\* the three steps of a spawn, by command
OpenOf(op, c, id, size, outcome) ==
  IF op = "spawn_pty" THEN SpawnOpen(c, id, size, outcome)
  ELSE RemoteOpen(c, id, size, outcome)
InsertOf(op, c) == IF op = "spawn_pty" THEN SpawnInsert(c) ELSE RemoteInsert(c)
ThreadOf(op, c) == IF op = "spawn_pty" THEN SpawnThread(c) ELSE RemoteThread(c)

\* C27: spawn and spawn_remote do the same to the registry and the reader
\* threads. Either one, from the same state and with the same id: fails
\* with Err and registers nothing when a step before the insert fails;
\* else starts one child on a new pair, inserts that pair under id in place
\* of whatever was there, starts the one reader thread of the pair and
\* returns Ok.
C27_RemoteSpawnSameEffect ==
  [][\A op \in SpawnOps, c \in Callers :
       /\ \A id \in Ids, size \in SpawnSizes, outcome \in SpawnFailures \cup {"ok"} :
            (/\ call[c].step = "idle"
             /\ call'[c].op = op \/ reply'.op = op
             /\ OpenOf(op, c, id, size, outcome)) =>
              /\ UNCHANGED << ptys, lock, reader, events, writer, term, drained >>
              /\ IF outcome = "ok"
                 THEN /\ call'[c] = InCall(op, "insert", id, nextH + 1, <<>>, 0, size)
                      /\ handle'[nextH + 1] = [id |-> id, own |-> "caller"]
                      /\ master'[nextH + 1] = size
                      /\ child'[nextH + 1].st = "running"
                      /\ reply' = NoReply
                 ELSE /\ call'[c] = Idle
                      /\ reply' = [op |-> op, id |-> id, val |-> "Err"]
                      /\ \A h \in H : handle'[h].own \notin {"map", "caller"}
                                         \/ handle'[h] = handle[h]
       /\ (call[c].step = "insert" /\ call[c].op = op /\ InsertOf(op, c)) =>
            /\ ptys' = HashMapInsert(ptys, call[c].id, call[c].h)
            /\ Cardinality({e \in ptys' : e[1] = call[c].id}) = 1
            /\ call'[c] = [call[c] EXCEPT !.step = "thread"]
            /\ reply' = NoReply
            /\ UNCHANGED << lock, reader, events, child, master, writer >>
       /\ (call[c].step = "thread" /\ call[c].op = op /\ ThreadOf(op, c)) =>
            /\ reader[call[c].h].st = "none"
            /\ reader' = [reader EXCEPT ![call[c].h].st = "read"]
            /\ handle[call[c].h].id = call[c].id
            /\ call'[c] = Idle
            /\ reply' = [op |-> op, id |-> call[c].id, val |-> "Ok"]
            /\ UNCHANGED << ptys, lock, handle, events, child, master, writer >>]_vars

\* spawn_remote has just returned Ok for an id that a session was registered
\* under: its pair has the one entry of the id and its reader thread runs,
\* the pair that was there is dropped
C27_Witness ==
  \E h1, h2 \in H :
    /\ h1 # h2
    /\ reply = [op |-> "spawn_remote_pty", id |-> handle[h2].id, val |-> "Ok"]
    /\ handle[h1].id = handle[h2].id
    /\ handle[h1].own = "dropped" /\ child[h1].kills = 0
    /\ {e \in ptys : e[1] = handle[h2].id} = {<<handle[h2].id, h2>>}
    /\ reader[h2].st = "read"
\* ---- C28 -------------------------------------------------------------------
\* C28: every terminal of a registered pair has cols > 0 and rows > 0.
C28_RegisteredSizesPositive ==
  \A e \in ptys : master[e[2]][1] > 0 /\ master[e[2]][2] > 0
\* ---- C29 -------------------------------------------------------------------
\* C29: a pair is in the registry under at most one id; each pair gets its
\* reader thread once, from the spawn that made the pair, and the thread is
\* never started again; the output of a pair's terminal is taken by reads
\* of that pair's reader thread only, and such a read takes the next bytes
\* of that terminal and touches no other reader thread.
C29_OneReaderPerTerminal ==
  [][/\ \A e, f \in ptys' : e[2] = f[2] => e = f
     /\ \A h \in H :
          /\ reader'[h] # reader[h] =>
               /\ reader[h].st # "stopped"
               /\ reader'[h].st # "none"
               /\ reader[h].st = "none" =>
                    \E c \in Callers : call[c].h = h /\ ThreadStep(c)
               /\ reader'[h].pos # reader[h].pos =>
                    /\ \E n \in 1..MaxOutput : ReaderRead(h, n)
                    /\ reader'[h].buf =
                         SubSeq(term[h], reader[h].pos + 1, reader'[h].pos)
                    /\ \A x \in H \ {h} : reader'[x] = reader[x]]_vars

\* two pairs made under one id, the first replaced in the registry by the
\* second: both reader threads run, and one holds bytes of its own terminal
C29_Witness ==
  \E h1, h2 \in H :
    /\ h1 # h2
    /\ handle[h1].id = handle[h2].id
    /\ reader[h1].st = "emit"
    /\ reader[h1].buf = SubSeq(term[h1], 1, Len(reader[h1].buf))
    /\ reader[h2].st = "read"
    /\ term[h2] = <<>>
Writing(c) == call[c].op = "write_pty" /\ call[c].step # "idle"

\* C31: a write and a kill never overlap. From its lookup to its return a
\* write holds the registry lock, its pair stays registered and no kill() is
\* called on the child, and no kill is under way; bytes reach a writer only
\* in a step of such a write, so none reaches the writer of a pair that a
\* kill has taken out; a write that fails leaves its pair registered and
\* unkilled (the failure is the writer's, not a kill's); and a write on an
\* id that is not registered returns Ok and hands over nothing.
C31_WriteWholeOrNoOp ==
  [][/\ \A c \in Callers : Writing(c) =>
          /\ lock = c
          /\ <<call[c].id, call[c].h>> \in ptys
          /\ <<call[c].id, call[c].h>> \in ptys'
          /\ child'[call[c].h].kills = 0
          /\ \A d \in Callers : call[d].op # "kill_pty"
     /\ \A h \in H : writer'[h].bytes # writer[h].bytes =>
          /\ handle[h].own = "map"
          /\ child[h].kills = 0
          /\ \E c \in Callers : Writing(c) /\ call[c].h = h /\ WriteAll(c)
     /\ \A c \in Callers :
          (call[c].step = "idle" /\ reply'.op = "write_pty"
             /\ reply'.id \notin Keys(ptys)) =>
            /\ reply'.val = "Ok"
            /\ writer' = writer]_vars

\* a write of two bytes was handed over whole and flushed, and the kill of
\* the session that waited for it has then returned: the pair is dropped
\* with exactly those bytes
C31_Witness ==
  \E h \in H :
    /\ reply = [op |-> "kill_pty", id |-> handle[h].id, val |-> "Ok"]
    /\ handle[h].own = "dropped" /\ child[h].kills = 1
    /\ writer[h].bytes = as_bytes(<<104, 105>>)
    /\ writer[h].flushed = 2
\* ---- C32 -------------------------------------------------------------------
\* the reader thread of pair h is in its loop
ActiveReader(h) == reader[h].st \in {"read", "emit"}

\* C32: at most one reader thread in its loop publishes under a given id.
C32_OneActiveReaderPerId ==
  \A id \in Ids :
    Cardinality({h \in H : handle[h].id = id /\ ActiveReader(h)}) <= 1
\* ---- C33 -------------------------------------------------------------------
\* pair h is out of every command's reach: the registry does not hold it,
\* no command under way holds it, and no kill() was ever called on its child
OutOfReach(h) ==
  /\ handle[h].own = "dropped"
  /\ child[h].kills = 0
  /\ \A c \in Callers : call[c].h # h

\* C33: when a spawn has just returned Err, the child it started, if any,
\* does not run out of every command's reach.
C33_FailedSpawnLeavesNoChild ==
  (reply.op \in SpawnOps /\ reply.val = "Err") =>
    \A h \in H :
      (h = nextH /\ handle[h].id = reply.id /\ reader[h].st = "none"
         /\ OutOfReach(h)) => child[h].st # "running"
\* ---- C34 -------------------------------------------------------------------
\* C34: kill() is called at most once on each child. It is called only on a
\* pair that a kill, a kill_all or a force_exit holding the registry lock
\* has taken out of the registry, and a pair that was taken out never comes
\* back; so a kill on an id whose pair was killed finds no entry, returns Ok
\* and changes nothing, and a later drain cannot meet that pair.
C34_AtMostOneKillPerChild ==
  [][/\ \A h \in H :
          /\ child[h].kills <= 1
          /\ child[h].kills = 1 => \A e \in ptys' : e[2] # h
          /\ child'[h].kills # child[h].kills =>
               /\ child[h].kills = 0
               /\ child'[h].kills = 1
               /\ lock # 0
               /\ call[lock].op \in {"kill_pty", "kill_all_ptys", "force_exit"}
               /\ handle'[h].own = "dropped"
     /\ (reply'.op = "kill_pty" /\ \A c \in Callers : call[c].step # "kill") =>
          /\ reply'.val = "Ok"
          /\ reply'.id \notin Keys(ptys)
          /\ UNCHANGED << ptys, lock, handle, child, reader, writer, master >>]_vars

\* a kill has just returned Ok for the id of the one session there is, whose
\* pair is dropped with one kill() on its child, after three commands (the
\* spawn, the kill, and a kill of the same id again)
C34_Witness ==
  /\ spent = 3
  /\ nextH = 1
  /\ reply = [op |-> "kill_pty", id |-> handle[1].id, val |-> "Ok"]
  /\ handle[1].own = "dropped"
  /\ child[1].kills = 1
  /\ child[1].st = "running"
  /\ reader[1].st = "read"
  /\ term[1] = <<>>
  /\ \A c \in Callers : call[c].step = "idle"
\* ---- C35 -------------------------------------------------------------------
WriteResize == {"write_pty", "resize_pty"}

\* C35: from the lookup of a write or a resize to its return, whatever the
\* id (registered or not) and whatever the outcome (Ok, or Err from
\* write_all, flush or resize), the registry stays as it is in every step:
\* the same ids, the same pairs under them, the same count.
C35_WriteResizeKeepRegistry ==
  [][(\E c \in Callers :
        \/ call[c].op \in WriteResize
        \/ call'[c].op \in WriteResize
        \/ call[c].step = "idle" /\ call'[c].step = "idle"
             /\ reply'.op \in WriteResize) =>
       /\ ptys' = ptys
       /\ Keys(ptys') = Keys(ptys)
       /\ Cardinality(ptys') = Cardinality(ptys)
       /\ \A h \in H : handle'[h].own = "map" <=> handle[h].own = "map"]_vars

\* a write to a registered session failed after its first byte, a resize of
\* the session has then failed too, and the session is still registered
C35_Witness ==
  \E h \in H :
    /\ reply = [op |-> "resize_pty", id |-> handle[h].id, val |-> "Err"]
    /\ ptys = {<<handle[h].id, h>>}
    /\ Len(writer[h].bytes) = 1
    /\ writer[h].flushed = 0
    /\ master[h] = <<80, 24>>
\* ---- C36 -------------------------------------------------------------------
\* C36: when kill() on the child fails, kill still returns Ok with the pair
\* out of the registry and dropped, and a turn of kill_all's drain still
\* takes its entry out, drops the pair, reports nothing and goes on with the
\* drain; kill_all returns only Ok, with the registry empty.
C36_KillFailureIsSilent ==
  [][\A c \in Callers :
       /\ (call[c].step = "kill" /\ KillSignal(c, FALSE)) =>
            /\ reply' = [op |-> "kill_pty", id |-> call[c].id, val |-> "Ok"]
            /\ call'[c] = Idle
            /\ lock' = 0
            /\ call[c].id \notin Keys(ptys')
            /\ handle'[call[c].h].own = "dropped"
       /\ \A e \in ptys :
            (call[c].op = "kill_all_ptys" /\ call[c].step = "drain"
               /\ KillAllNext(c, e, FALSE)) =>
              /\ e \notin ptys'
              /\ handle'[e[2]].own = "dropped"
              /\ reply' = NoReply
              /\ call'[c] = call[c]
       /\ (call[c].op = "kill_all_ptys" /\ call[c].step = "drain"
              /\ call'[c].step = "idle") =>
            /\ reply' = [op |-> "kill_all_ptys", id |-> NoId, val |-> "Ok"]
            /\ ptys' = {}]_vars

\* kill has just returned Ok for a session whose child had ended before
\* kill() was called on it: the pair is out of the registry and dropped
C36_Witness ==
  \E h \in H :
    /\ reply = [op |-> "kill_pty", id |-> handle[h].id, val |-> "Ok"]
    /\ child[h].st = "exited"
    /\ child[h].kills = 1
    /\ handle[h].own = "dropped"
    /\ handle[h].id \notin Keys(ptys)
\* ---- C37 -------------------------------------------------------------------
\* C37: create_worktree generates at most 20 candidates; every turn of the
\* loop that ends without a return is a candidate whose worktree path or
\* branch exists; `git worktree add` runs at most once, only for a
\* candidate whose path and branch were both found absent, and whatever it
\* ends with, the call returns with that candidate (Ok only after the add
\* and the copy succeeded, with that candidate); once returned, the call
\* does nothing more; and the error "Failed to generate unique worktree
\* path" is returned exactly when 20 candidates have collided.
C37_WorktreeAtMost20Candidates ==
  [][/\ wt.tried <= Attempts /\ wt'.tried <= Attempts
     /\ wt.adds <= 1 /\ wt'.adds <= 1
     /\ wt'.attempt # wt.attempt =>
          /\ wt'.attempt = wt.attempt + 1
          /\ wt.suffix \in wt.paths \/ wt.suffix \in wt.branches
          /\ wt'.adds = 0
     /\ (wt'.phase = "add" /\ wt.phase # "add") =>
          /\ wt.suffix \notin wt.paths
          /\ wt.suffix \notin wt.branches
          /\ wt'.suffix = wt.suffix
     /\ wt'.adds # wt.adds =>
          /\ wt.phase = "add"
          /\ wt'.phase \in {"copy", "done"}
          /\ wt'.phase = "done" => wt'.result = "Err" /\ wt'.info = AddFailed
     /\ (wt'.result = "Ok" /\ wt.result # "Ok") =>
          /\ wt.phase = "copy"
          /\ wt.adds = 1
          /\ wt'.info = wt.suffix
     /\ wt.phase = "done" => wt' = wt
     /\ (wt'.phase = "done" /\ wt'.info = NotUnique) <=>
          (wt'.phase = "done" /\ wt'.attempt = Attempts /\ wt'.adds = 0
             /\ wt'.result = "Err" /\ wt'.tried = Attempts)]_vars

\* all 20 candidates collided, some on the path and some on the branch, and
\* the call has returned the error without a run of `git worktree add`
C37_Witness ==
  /\ wt.phase = "done"
  /\ wt.result = "Err"
  /\ wt.info = NotUnique
  /\ wt.tried = 20
  /\ wt.adds = 0
  /\ wt.paths # {} /\ wt.branches # {}
  /\ wt.paths \cap wt.branches = {}
\* ---- C38 -------------------------------------------------------------------
\* C38: from every state, for every caller, id, size, startup command, data
\* and outcome of the calls on the terminal, a step is a step of a command of
\* lib.rs exactly when it is the step of the command of pty.rs of the same
\* name with the same arguments: the same step is possible, with the same
\* registry, the same result to the caller, the same reader thread started
\* and the same state of every pair after it. So the two, run on the same
\* sequence of calls from the same state, stay in the same state.
C38_LibSameAsPty ==
  [][\A c \in Callers :
       /\ call[c].step = "idle" =>
            /\ \A id \in Ids :
                 /\ \A size \in SpawnSizes, command \in {None} \cup Commands,
                       outcome \in SpawnFailures \cup {"ok"} :
                      LibSpawnWith(c, id, size, command, outcome)
                        <=> SpawnWith(c, id, size, command, outcome)
                 /\ \A data \in Strings :
                      LibWriteLookup(c, id, data) <=> WriteLookup(c, id, data)
                 /\ \A size \in Sizes :
                      LibResizeLookup(c, id, size) <=> ResizeLookup(c, id, size)
                 /\ LibKillRemove(c, id) <=> KillRemove(c, id)
       /\ call[c].step = "insert" => (LibSpawnInsert(c) <=> SpawnInsert(c))
       /\ call[c].step = "thread" => (LibSpawnThread(c) <=> SpawnThread(c))
       /\ call[c].step = "write_all" =>
            /\ LibWriteAll(c) <=> WriteAll(c)
            /\ LibWriteAllErr(c) <=> WriteAllErr(c)
       /\ call[c].step = "flush" =>
            \A ok \in BOOLEAN : LibWriteFlush(c, ok) <=> WriteFlush(c, ok)
       /\ call[c].step = "resize" =>
            \A ok \in BOOLEAN : LibResizeApply(c, ok) <=> ResizeApply(c, ok)
       /\ call[c].step = "kill" =>
            \A ok \in BOOLEAN : LibKillSignal(c, ok) <=> KillSignal(c, ok)]_vars

\* a session spawned with a startup command was written to and then killed:
\* kill has returned Ok, the pair is dropped with the bytes of the write
C38_Witness ==
  \E h \in H :
    /\ reply = [op |-> "kill_pty", id |-> handle[h].id, val |-> "Ok"]
    /\ child[h].prog = StartupScript("make", Shell)
    /\ handle[h].own = "dropped" /\ child[h].kills = 1
    /\ reader[h].st = "read"
    /\ writer[h].bytes # <<>>
    /\ writer[h].flushed = Len(writer[h].bytes)

====
